---- MODULE Spec2Model ----
(***************************************************************************)
(* A model of the SWIFT MT codec of n8n-nodes-swift: the decoder           *)
(* (parseMtMessage), the validator (validateMtMessage), the generator      *)
(* (generateMtMessage) and the BIC validation the generator relies on.     *)
(* Texts are TLA+ strings handled character by character, so that the      *)
(* regular expressions and the string operations of the source are         *)
(* modelled by what they do.                                               *)
(***************************************************************************)
EXTENDS Integers, Sequences, FiniteSets, TLC

(***************************************************************************)
(* JavaScript string primitives used by the source.                        *)
(***************************************************************************)

Digits == {"0", "1", "2", "3", "4", "5", "6", "7", "8", "9"}

UpperLetters == "ABCDEFGHIJKLMNOPQRSTUVWXYZ"

LowerLetters == "abcdefghijklmnopqrstuvwxyz"

Upper == { SubSeq(UpperLetters, i, i) : i \in 1..26 }

Lower == { SubSeq(LowerLetters, i, i) : i \in 1..26 }

\* The characters the regular expression class \s matches (ASCII part).
Whitespace == {" ", "\t", "\n", "\r", "\f"}

\* The line terminators the regular expression "." does not match.
LineTerminators == {"\n", "\r"}

Min(a, b) == IF a < b THEN a ELSE b

\* s.charAt(i), with JavaScript's 0-based index: "" when out of range.
CharAt(s, i) == IF i >= 0 /\ i < Len(s) THEN SubSeq(s, i + 1, i + 1) ELSE ""

\* s.slice(a, b) for non-negative a and b (0-based, b exclusive, clamped).
Slice(s, a, b) ==
  LET lo == Min(a, Len(s))
      hi == Min(b, Len(s))
  IN  IF lo >= hi THEN "" ELSE SubSeq(s, lo + 1, hi)

\* s.slice(a): the rest of the string from 0-based index a.
SliceFrom(s, a) == Slice(s, a, Len(s))

\* s.startsWith(p, i) with a 0-based index.
StartsWithAt(s, p, i) == Slice(s, i, i + Len(p)) = p

\* The index (1-based) of c in the 26-letter alphabet abc, 0 when absent.
RECURSIVE LetterIndex(_, _, _)
LetterIndex(abc, c, i) ==
  IF i > Len(abc) THEN 0
  ELSE IF SubSeq(abc, i, i) = c THEN i
  ELSE LetterIndex(abc, c, i + 1)

UpperChar(c) ==
  LET i == LetterIndex(LowerLetters, c, 1)
  IN  IF i = 0 THEN c ELSE SubSeq(UpperLetters, i, i)

\* s.toUpperCase()
RECURSIVE ToUpperCase(_)
ToUpperCase(s) ==
  IF s = "" THEN "" ELSE UpperChar(Head(s)) \o ToUpperCase(Tail(s))

\* s.replace(/\s/g, '')
RECURSIVE StripWhitespace(_)
StripWhitespace(s) ==
  IF s = "" THEN ""
  ELSE IF Head(s) \in Whitespace THEN StripWhitespace(Tail(s))
  ELSE Head(s) \o StripWhitespace(Tail(s))

RECURSIVE TrimStart(_)
TrimStart(s) ==
  IF s # "" /\ Head(s) \in Whitespace THEN TrimStart(Tail(s)) ELSE s

RECURSIVE TrimEnd(_)
TrimEnd(s) ==
  IF s # "" /\ SubSeq(s, Len(s), Len(s)) \in Whitespace
  THEN TrimEnd(SubSeq(s, 1, Len(s) - 1))
  ELSE s

\* s.trim()
Trim(s) == TrimEnd(TrimStart(s))

\* The least j in lo..hi with P(j), and hi + 1 when there is none: how a
\* left-to-right scan ends.
First(lo, hi, P(_)) ==
  IF \E j \in lo..hi : P(j)
  THEN CHOOSE j \in lo..hi : P(j) /\ \A k \in lo..(j - 1) : ~P(k)
  ELSE hi + 1

\* The scan result j as an index: -1 when the scan passed hi.
FoundOrMinusOne(j, hi) == IF j > hi THEN -1 ELSE j

\* s.indexOf(p) from 0-based index i: -1 when p does not occur.
IndexOfFrom(s, p, i) ==
  LET at(j) == StartsWithAt(s, p, j)
  IN  FoundOrMinusOne(First(i, Len(s) - Len(p), at), Len(s) - Len(p))

\* s with the n characters at index i replaced by r; s itself when i < 0.
ReplaceAt(s, i, n, r) ==
  IF i < 0 THEN s ELSE Slice(s, 0, i) \o r \o SliceFrom(s, i + n)

\* s.replace(p, r) for a string pattern p: the first occurrence only.
ReplaceFirst(s, p, r) == ReplaceAt(s, IndexOfFrom(s, p, 0), Len(p), r)

\* s.split(sep) for a non-empty string separator; SplitAt continues from
\* the index i of the first separator.
RECURSIVE SplitOn(_, _)
RECURSIVE SplitAt(_, _, _)
SplitAt(s, sep, i) ==
  IF i < 0 THEN <<s>>
  ELSE <<Slice(s, 0, i)>> \o SplitOn(SliceFrom(s, i + Len(sep)), sep)

SplitOn(s, sep) == SplitAt(s, sep, IndexOfFrom(s, sep, 0))

\* xs.join(sep)
RECURSIVE Join(_, _)
Join(xs, sep) ==
  IF Len(xs) = 0 THEN ""
  ELSE IF Len(xs) = 1 THEN xs[1]
  ELSE xs[1] \o sep \o Join(Tail(xs), sep)

\* Every character of s is in the set cs.
AllIn(s, cs) == \A i \in 1..Len(s) : SubSeq(s, i, i) \in cs

\* Names every object literal inherits from Object.prototype: obj[key] is
\* truthy for them although the literal does not list them.
ObjectPrototypeKeys ==
  {"constructor", "hasOwnProperty", "isPrototypeOf", "propertyIsEnumerable",
   "toLocaleString", "toString", "valueOf", "__proto__", "__defineGetter__",
   "__defineSetter__", "__lookupGetter__", "__lookupSetter__"}

\* Truthiness of table[key] for an object literal whose own keys are `keys`
\* (all of whose own values are truthy).
HasTruthyEntry(keys, key) == key \in keys \/ key \in ObjectPrototypeKeys

(***************************************************************************)
(* BIC validation (bicValidator.ts).                                       *)
(***************************************************************************)

\* The keys of COUNTRY_CODES.
COUNTRY_CODES ==
  {"US", "GB", "DE", "FR", "CH", "JP", "CN", "CA", "AU", "SG", "HK", "NL",
   "ES", "IT", "IN", "BR", "AE", "ZA", "KR", "SE", "NO", "DK", "FI", "AT",
   "BE", "IE", "PT", "PL", "CZ", "RU", "MX", "AR", "CL", "CO", "TH", "MY",
   "ID", "PH", "VN", "NZ", "SA", "QA", "KW", "EG", "NG", "KE"}

\* bic.toUpperCase().replace(/\s/g, '')
normalizeBic(bic) == StripWhitespace(ToUpperCase(bic))

\* BIC_PATTERN.test(s): /^[A-Z]{4}[A-Z]{2}[A-Z0-9]{2}([A-Z0-9]{3})?$/
BIC_PATTERN(s) ==
  /\ Len(s) \in {8, 11}
  /\ AllIn(Slice(s, 0, 6), Upper)
  /\ AllIn(SliceFrom(s, 6), Upper \cup Digits)

\* The components validateBic cuts out of the normalized code.
BicComponents(normalized) ==
  [institutionCode |-> Slice(normalized, 0, 4),
   countryCode     |-> Slice(normalized, 4, 6),
   locationCode    |-> Slice(normalized, 6, 8),
   branchCode      |-> IF Len(normalized) = 11
                       THEN Slice(normalized, 8, 11) ELSE "XXX"]

\* A faulty variant of BicErrors that leaves out the location check.
BicErrorsWithoutLocation(normalized, components) ==
  (IF Len(normalized) # 8 /\ Len(normalized) # 11
   THEN <<"BIC must be 8 or 11 characters, got " \o ToString(Len(normalized))>>
   ELSE <<>>)
  \o (IF ~BIC_PATTERN(normalized)
      THEN <<"BIC format is invalid. Expected format: AAAABBCCXXX or AAAABBCC">>
      ELSE <<>>)
  \o (IF components.countryCode # ""
         /\ ~HasTruthyEntry(COUNTRY_CODES, components.countryCode)
      THEN <<"Unknown country code: " \o components.countryCode>>
      ELSE <<>>)

\* The error list of validateBic, in the order the checks push to it.
BicErrors(normalized, components) ==
  (IF Len(normalized) # 8 /\ Len(normalized) # 11
   THEN <<"BIC must be 8 or 11 characters, got " \o ToString(Len(normalized))>>
   ELSE <<>>)
  \o (IF ~BIC_PATTERN(normalized)
      THEN <<"BIC format is invalid. Expected format: AAAABBCCXXX or AAAABBCC">>
      ELSE <<>>)
  \o (IF components.countryCode # ""
         /\ ~HasTruthyEntry(COUNTRY_CODES, components.countryCode)
      THEN <<"Unknown country code: " \o components.countryCode>>
      ELSE <<>>)
  \o (IF components.locationCode # ""
         /\ CharAt(components.locationCode, 0) \in {"0", "1"}
      THEN <<"Location code first character cannot be 0 or 1">>
      ELSE <<>>)

\* The value validateBic returns once the checks have run.
BicResult(bic, normalized, components, errors) ==
  [valid |-> Len(errors) = 0, bic |-> bic, normalized |-> normalized,
   components |-> components, errors |-> errors]

\* validateBic, from the normalized code on.
ValidateNormalized(bic, normalized) ==
  IF normalized = ""
  THEN [valid |-> FALSE, bic |-> bic, normalized |-> "",
        components |-> [institutionCode |-> "", countryCode |-> "",
                        locationCode |-> "", branchCode |-> ""],
        errors |-> <<"BIC code is required">>]
  ELSE BicResult(bic, normalized, BicComponents(normalized),
                 BicErrors(normalized, BicComponents(normalized)))

\* validateBic(bic): the validity flag, the normalized form, the components
\* and the error list.
validateBic(bic) == ValidateNormalized(bic, normalizeBic(bic))

(***************************************************************************)
(* The field specification registry (data/mtTemplates.ts).  F(tag, name,   *)
(* mandatory, maxLength) is one MtFieldSpec; maxLength 0 stands for an     *)
(* absent maxLength (both are falsy where the validator reads it).         *)
(***************************************************************************)

F(tag, name, mandatory, maxLength) ==
  [tag |-> tag, name |-> name, mandatory |-> mandatory, maxLength |-> maxLength]

MT103_SPEC ==
  <<F("20", "Sender's Reference", TRUE, 16),
    F("13C", "Time Indication", FALSE, 0),
    F("23B", "Bank Operation Code", TRUE, 0),
    F("23E", "Instruction Code", FALSE, 0),
    F("26T", "Transaction Type Code", FALSE, 0),
    F("32A", "Value Date/Currency/Amount", TRUE, 0),
    F("33B", "Currency/Instructed Amount", FALSE, 0),
    F("36", "Exchange Rate", FALSE, 0),
    F("50A", "Ordering Customer (BIC)", FALSE, 0),
    F("50F", "Ordering Customer (Party)", FALSE, 0),
    F("50K", "Ordering Customer (Name/Address)", FALSE, 0),
    F("51A", "Sending Institution", FALSE, 0),
    F("52A", "Ordering Institution (BIC)", FALSE, 0),
    F("52D", "Ordering Institution (Name/Address)", FALSE, 0),
    F("53A", "Sender's Correspondent (BIC)", FALSE, 0),
    F("53B", "Sender's Correspondent (Location)", FALSE, 0),
    F("53D", "Sender's Correspondent (Name/Address)", FALSE, 0),
    F("54A", "Receiver's Correspondent (BIC)", FALSE, 0),
    F("54B", "Receiver's Correspondent (Location)", FALSE, 0),
    F("54D", "Receiver's Correspondent (Name/Address)", FALSE, 0),
    F("55A", "Third Reimbursement Institution (BIC)", FALSE, 0),
    F("55B", "Third Reimbursement Institution (Location)", FALSE, 0),
    F("55D", "Third Reimbursement Institution (Name/Address)", FALSE, 0),
    F("56A", "Intermediary Institution (BIC)", FALSE, 0),
    F("56C", "Intermediary Institution (Account)", FALSE, 0),
    F("56D", "Intermediary Institution (Name/Address)", FALSE, 0),
    F("57A", "Account With Institution (BIC)", FALSE, 0),
    F("57B", "Account With Institution (Location)", FALSE, 0),
    F("57C", "Account With Institution (Account)", FALSE, 0),
    F("57D", "Account With Institution (Name/Address)", FALSE, 0),
    F("59", "Beneficiary Customer (Account)", TRUE, 0),
    F("59A", "Beneficiary Customer (BIC)", FALSE, 0),
    F("59F", "Beneficiary Customer (Party)", FALSE, 0),
    F("70", "Remittance Information", FALSE, 140),
    F("71A", "Details of Charges", TRUE, 0),
    F("71F", "Sender's Charges", FALSE, 0),
    F("71G", "Receiver's Charges", FALSE, 0),
    F("72", "Sender to Receiver Information", FALSE, 210),
    F("77B", "Regulatory Reporting", FALSE, 105),
    F("77T", "Envelope Contents", FALSE, 0)>>

MT202_SPEC ==
  <<F("20", "Transaction Reference Number", TRUE, 16),
    F("21", "Related Reference", TRUE, 16),
    F("13C", "Time Indication", FALSE, 0),
    F("32A", "Value Date/Currency/Amount", TRUE, 0),
    F("52A", "Ordering Institution (BIC)", FALSE, 0),
    F("52D", "Ordering Institution (Name/Address)", FALSE, 0),
    F("53A", "Sender's Correspondent (BIC)", FALSE, 0),
    F("53B", "Sender's Correspondent (Location)", FALSE, 0),
    F("53D", "Sender's Correspondent (Name/Address)", FALSE, 0),
    F("54A", "Receiver's Correspondent (BIC)", FALSE, 0),
    F("54B", "Receiver's Correspondent (Location)", FALSE, 0),
    F("54D", "Receiver's Correspondent (Name/Address)", FALSE, 0),
    F("56A", "Intermediary (BIC)", FALSE, 0),
    F("56D", "Intermediary (Name/Address)", FALSE, 0),
    F("57A", "Account With Institution (BIC)", FALSE, 0),
    F("57B", "Account With Institution (Location)", FALSE, 0),
    F("57D", "Account With Institution (Name/Address)", FALSE, 0),
    F("58A", "Beneficiary Institution (BIC)", TRUE, 0),
    F("58D", "Beneficiary Institution (Name/Address)", FALSE, 0),
    F("72", "Sender to Receiver Information", FALSE, 210)>>

MT940_SPEC ==
  <<F("20", "Transaction Reference Number", TRUE, 16),
    F("21", "Related Reference", FALSE, 16),
    F("25", "Account Identification", TRUE, 35),
    F("25P", "Account Identification (Party)", FALSE, 0),
    F("28C", "Statement Number/Sequence Number", TRUE, 0),
    F("60F", "Opening Balance (First)", TRUE, 0),
    F("60M", "Opening Balance (Intermediate)", FALSE, 0),
    F("61", "Statement Line", FALSE, 0),
    F("62F", "Closing Balance (Final)", TRUE, 0),
    F("62M", "Closing Balance (Intermediate)", FALSE, 0),
    F("64", "Closing Available Balance", FALSE, 0),
    F("65", "Forward Available Balance", FALSE, 0),
    F("86", "Information to Account Owner", FALSE, 390)>>

MT950_SPEC ==
  <<F("20", "Transaction Reference Number", TRUE, 16),
    F("25", "Account Identification", TRUE, 35),
    F("28C", "Statement Number/Sequence Number", TRUE, 0),
    F("60F", "Opening Balance (First)", TRUE, 0),
    F("60M", "Opening Balance (Intermediate)", FALSE, 0),
    F("61", "Statement Line", FALSE, 0),
    F("62F", "Closing Balance (Final)", TRUE, 0),
    F("62M", "Closing Balance (Intermediate)", FALSE, 0),
    F("64", "Closing Available Balance", FALSE, 0)>>

\* The own keys of MT_SPECS.
MT_SPEC_KEYS == {"MT103", "MT202", "MT940", "MT950"}

\* MT_SPECS[key].fields; <<>> stands for an undefined specification.
MT_SPECS(key) ==
  CASE key = "MT103" -> MT103_SPEC
    [] key = "MT202" -> MT202_SPEC
    [] key = "MT940" -> MT940_SPEC
    [] key = "MT950" -> MT950_SPEC
    [] OTHER -> <<>>

\* The own keys of BANK_OPERATION_CODES.
BANK_OPERATION_CODES == {"CRED", "CRTS", "SPAY", "SPRI", "SSTD"}

\* The own keys of CHARGE_CODES.
CHARGE_CODES == {"BEN", "OUR", "SHA"}

(***************************************************************************)
(* JavaScript objects with string keys, kept as the sequence of their      *)
(* entries in property order: integer-like keys first (ascending), then    *)
(* the other keys in insertion order.  This is the order Object.entries    *)
(* and for-in walk.                                                        *)
(***************************************************************************)

\* A canonical array index: decimal digits without a leading zero.
IsArrayIndex(k) ==
  /\ k # ""
  /\ AllIn(k, Digits)
  /\ (Len(k) = 1 \/ Head(k) # "0")
  /\ Len(k) <= 9

DigitValue(c) ==
  CASE c = "0" -> 0 [] c = "1" -> 1 [] c = "2" -> 2 [] c = "3" -> 3
    [] c = "4" -> 4 [] c = "5" -> 5 [] c = "6" -> 6 [] c = "7" -> 7
    [] c = "8" -> 8 [] c = "9" -> 9

\* The number a string of decimal digits denotes.
RECURSIVE DigitsToNat(_)
DigitsToNat(s) ==
  IF s = "" THEN 0
  ELSE 10 * DigitsToNat(SubSeq(s, 1, Len(s) - 1))
         + DigitValue(SubSeq(s, Len(s), Len(s)))

ObjHas(obj, k) == \E i \in 1..Len(obj) : obj[i].key = k

\* obj[k] for a key the object holds.
ObjGet(obj, k) == obj[CHOOSE i \in 1..Len(obj) : obj[i].key = k].value

ObjKeys(obj) == [i \in 1..Len(obj) |-> obj[i].key]

\* The position a new key takes: an integer-like key goes before the first
\* entry that is not integer-like or is a larger number; any other key goes
\* last.
InsertAt(obj, k) ==
  IF ~IsArrayIndex(k) THEN Len(obj) + 1
  ELSE LET later == { i \in 1..Len(obj) :
                        \/ ~IsArrayIndex(obj[i].key)
                        \/ DigitsToNat(obj[i].key) > DigitsToNat(k) }
       IN  IF later = {} THEN Len(obj) + 1
           ELSE CHOOSE i \in later : \A j \in later : i <= j

\* obj[k] = v
ObjSet(obj, k, v) ==
  IF ObjHas(obj, k)
  THEN [i \in 1..Len(obj) |->
          IF obj[i].key = k THEN [key |-> k, value |-> v] ELSE obj[i]]
  ELSE LET at == InsertAt(obj, k)
       IN  SubSeq(obj, 1, at - 1) \o <<[key |-> k, value |-> v]>>
             \o SubSeq(obj, at, Len(obj))

\* The object without key k (delete obj[k]).
ObjDelete(obj, k) == SelectSeq(obj, LAMBDA e : e.key # k)

(***************************************************************************)
(* Field values: a scalar string or an array of lines.                     *)
(***************************************************************************)

Scalar(s) == [arr |-> FALSE, v |-> <<s>>]

Arr(lines) == [arr |-> TRUE, v |-> lines]

\* JavaScript truthiness of fields[tag]: undefined and '' are falsy, an
\* array (even an empty one) is truthy.
Truthy(fields, tag) ==
  /\ ObjHas(fields, tag)
  /\ LET x == ObjGet(fields, tag) IN x.arr \/ x.v[1] # ""

\* Array.isArray(value) ? value.join('\n') : value
JoinedValue(x) == IF x.arr THEN Join(x.v, "\n") ELSE x.v[1]

(***************************************************************************)
(* The decoder (mtParser.ts).                                              *)
(***************************************************************************)

\* The first 0-based index >= i of s holding a brace, Len(s) when none:
\* what [^{}]* leaves unconsumed.
SkipNonBrace(s, i) ==
  LET brace(j) == CharAt(s, j) \in {"{", "}"}
  IN  IF i >= Len(s) THEN i ELSE First(i, Len(s) - 1, brace)

\* The tail [^{}]*(?:\{[^{}]*\}[^{}]*)*\} of blockPattern matched from
\* index i: the index of the closing brace, or -1 when it does not match.
\* BraceAt decides at the first brace j after the scanned run: "}" ends the
\* match, "{" must open a group; GroupCloseAt decides at the first brace k
\* after the group's opening brace: only "}" closes the group.
RECURSIVE BlockContentEnd(_, _)
RECURSIVE BraceAt(_, _)
RECURSIVE GroupCloseAt(_, _)
GroupCloseAt(s, k) ==
  IF k < Len(s) /\ CharAt(s, k) = "}" THEN BlockContentEnd(s, k + 1) ELSE -1

BraceAt(s, j) ==
  IF j >= Len(s) THEN -1
  ELSE IF CharAt(s, j) = "}" THEN j
  ELSE GroupCloseAt(s, SkipNonBrace(s, j + 1))

BlockContentEnd(s, i) == BraceAt(s, SkipNonBrace(s, i))

\* blockPattern /\{(\d):([^{}]*(?:\{[^{}]*\}[^{}]*)*)\}/ tried at index p:
\* the index of the closing brace, or -1.
BlockMatchAt(s, p) ==
  IF CharAt(s, p) = "{" /\ CharAt(s, p + 1) \in Digits /\ CharAt(s, p + 2) = ":"
  THEN BlockContentEnd(s, p + 3)
  ELSE -1

NoBlocks == [n \in 0..9 |-> [present |-> FALSE, content |-> ""]]

\* The while loop of blockPattern.exec from lastIndex from: each match is
\* the leftmost one at or after lastIndex, and sets lastIndex past it.
\* StoreBlock is the loop body for the match from p to the closing brace e:
\* blocks[number] = content.
RECURSIVE ExecBlocks(_, _, _)
RECURSIVE StoreBlock(_, _, _, _)
RECURSIVE ExecBlocksAt(_, _, _)
StoreBlock(s, p, e, blocks) ==
  ExecBlocks(s, e + 1,
             [blocks EXCEPT ![DigitValue(CharAt(s, p + 1))] =
                [present |-> TRUE, content |-> Slice(s, p + 3, e)]])

ExecBlocksAt(s, p, blocks) ==
  IF p >= Len(s) THEN blocks ELSE StoreBlock(s, p, BlockMatchAt(s, p), blocks)

ExecBlocks(s, from, blocks) ==
  LET matches(q) == BlockMatchAt(s, q) >= 0
  IN  ExecBlocksAt(s, First(from, Len(s) - 1, matches), blocks)

\* A faulty variant of BlocksOrFallback that leaves the block set empty when
\* no block matched.
BlocksWithoutFallback(message, blocks) == blocks

\* The fallback of extractBlocks: when no block matched, the whole message
\* is stored as block 4 (the line-based field map the branch computes is a
\* local that is never read).
BlocksOrFallback(message, blocks) ==
  IF \A n \in 0..9 : ~blocks[n].present
  THEN [blocks EXCEPT ![4] = [present |-> TRUE, content |-> message]]
  ELSE blocks

\* extractBlocks(message)
extractBlocks(message) ==
  BlocksOrFallback(message, ExecBlocks(message, 0, NoBlocks))

\* parseBasicHeader(block)
parseBasicHeader(block) ==
  [applicationId  |-> CharAt(block, 0),
   serviceId      |-> Slice(block, 1, 3),
   ltAddress      |-> Slice(block, 3, 15),
   sessionNumber  |-> Slice(block, 15, 19),
   sequenceNumber |-> Slice(block, 19, 25)]

\* A faulty variant of parseApplicationHeader that reads the message type
\* whichever character the block starts with.
parseApplicationHeaderAnyDirection(block) ==
  IF block = "" THEN [inputOutput |-> "", messageType |-> ""]
  ELSE [inputOutput |-> CharAt(block, 0),
        messageType |-> "MT" \o Slice(block, 1, 4)]

\* parseApplicationHeader(block): the record holds the keys the variant
\* assigns.
parseApplicationHeader(block) ==
  IF block = "" THEN [inputOutput |-> "", messageType |-> ""]
  ELSE IF CharAt(block, 0) = "I" THEN
    [inputOutput        |-> "I",
     messageType        |-> "MT" \o Slice(block, 1, 4),
     receiverAddress    |-> Slice(block, 4, 16),
     priority           |-> CharAt(block, 16),
     deliveryMonitor    |-> CharAt(block, 17),
     obsolescencePeriod |-> Slice(block, 18, 21)]
  ELSE IF CharAt(block, 0) = "O" THEN
    [inputOutput |-> "O",
     messageType |-> "MT" \o Slice(block, 1, 4),
     inputTime   |-> Slice(block, 4, 8),
     inputDate   |-> Slice(block, 8, 14),
     mir         |-> Slice(block, 14, 42),
     outputDate  |-> Slice(block, 42, 48),
     outputTime  |-> Slice(block, 48, 52),
     priority    |-> CharAt(block, 52)]
  ELSE [inputOutput |-> CharAt(block, 0), messageType |-> ""]

\* The first 0-based index >= i of s holding "}", Len(s) when none.
SkipToClose(s, i) ==
  LET close(j) == CharAt(s, j) = "}"
  IN  IF i >= Len(s) THEN i ELSE First(i, Len(s) - 1, close)

\* The exec loop of /\{(K{3}):([^}]*)\}/g from index p, K being a
\* character of keyChars: the object of the sub-fields found.
\* StoreSubField is the loop body for the match from p to the closing
\* brace e: obj[key] = value.
RECURSIVE ExecSubFields(_, _, _, _)
RECURSIVE StoreSubField(_, _, _, _, _)
RECURSIVE ExecSubFieldsAt(_, _, _, _)
StoreSubField(s, p, e, keyChars, obj) ==
  ExecSubFields(s, e + 1, keyChars,
                ObjSet(obj, Slice(s, p + 1, p + 4), Slice(s, p + 5, e)))

ExecSubFieldsAt(s, p, keyChars, obj) ==
  IF p >= Len(s) THEN obj
  ELSE StoreSubField(s, p, SkipToClose(s, p + 5), keyChars, obj)

ExecSubFields(s, from, keyChars, obj) ==
  LET matches(q) == /\ CharAt(s, q) = "{"
                    /\ Len(Slice(s, q + 1, q + 4)) = 3
                    /\ AllIn(Slice(s, q + 1, q + 4), keyChars)
                    /\ CharAt(s, q + 4) = ":"
                    /\ SkipToClose(s, q + 5) < Len(s)
  IN  ExecSubFieldsAt(s, First(from, Len(s) - 1, matches), keyChars, obj)

\* parseUserHeader(block)
parseUserHeader(block) == ExecSubFields(block, 0, Digits, <<>>)

\* parseTrailers(block)
parseTrailers(block) == ExecSubFields(block, 0, Upper, <<>>)

\* block.replace(/^[\r\n]+|[\r\n]+$/g, ''): the leading and the trailing
\* run of line-break characters removed.
RECURSIVE StripLeadingBreaks(_)
StripLeadingBreaks(s) ==
  IF s # "" /\ Head(s) \in {"\r", "\n"} THEN StripLeadingBreaks(Tail(s)) ELSE s

RECURSIVE StripTrailingBreaks(_)
StripTrailingBreaks(s) ==
  IF s # "" /\ SubSeq(s, Len(s), Len(s)) \in {"\r", "\n"}
  THEN StripTrailingBreaks(SubSeq(s, 1, Len(s) - 1))
  ELSE s

CleanBlock(block) == StripTrailingBreaks(StripLeadingBreaks(block))

\* s.split(/\r?\n/)
\* SplitLinesAt continues from the index i of the first "\n".
RECURSIVE SplitLines(_)
RECURSIVE SplitLinesAt(_, _)
SplitLinesAt(s, i) ==
  IF i < 0 THEN <<s>>
  ELSE <<Slice(s, 0, IF i > 0 /\ CharAt(s, i - 1) = "\r" THEN i - 1 ELSE i)>>
         \o SplitLines(SliceFrom(s, i + 1))

SplitLines(s) == SplitLinesAt(s, IndexOfFrom(s, "\n", 0))

\* line.match(/^:(\d{2}[A-Z]?):(.*)$/): whether it matches, the tag and
\* the rest of the line ("." matches no line terminator, "$" only the end
\* of the line).
TagMatch(line) ==
  LET lettered == CharAt(line, 3) \in Upper
      colon    == IF lettered THEN 4 ELSE 3
      ok       == /\ CharAt(line, 0) = ":"
                  /\ CharAt(line, 1) \in Digits
                  /\ CharAt(line, 2) \in Digits
                  /\ CharAt(line, colon) = ":"
                  /\ \A i \in (colon + 1)..(Len(line) - 1) :
                        CharAt(line, i) \notin LineTerminators
  IN  [ok   |-> ok,
       tag  |-> IF ok THEN Slice(line, 1, colon) ELSE "",
       rest |-> IF ok THEN SliceFrom(line, colon + 1) ELSE ""]

\* A faulty variant of FieldValue that always stores the lines joined.
FieldValueJoined(currentLines) == Scalar(Join(currentLines, "\n"))

\* A faulty variant of FieldValue that always stores the array of lines.
FieldValueAlwaysLines(currentLines) == Arr(currentLines)

\* The value stored for a field: the array of its lines when there are two
\* or more, else the lines joined (the single line, or '').
FieldValue(currentLines) ==
  IF Len(currentLines) > 1 THEN Arr(currentLines)
  ELSE Scalar(Join(currentLines, "\n"))

\* The for loop of parseTextBlock over lines[i..], and the save of the
\* last field after it.
\* SaveField is the save of the field read so far (if (currentTag) ...);
\* TextBlockStep is the loop body for lines[i], tagMatch being the result
\* of matching the line against the tag pattern.
\* A faulty variant of SaveField that keeps the first value saved for a tag.
SaveFieldOnce(fields, currentTag, currentLines) ==
  IF currentTag # "" /\ ~ObjHas(fields, currentTag)
  THEN ObjSet(fields, currentTag, FieldValue(currentLines))
  ELSE fields

SaveField(fields, currentTag, currentLines) ==
  IF currentTag # ""
  THEN ObjSet(fields, currentTag, FieldValue(currentLines))
  ELSE fields

RECURSIVE TextBlockLoop(_, _, _, _, _)
RECURSIVE TextBlockStep(_, _, _, _, _, _)
\* A faulty variant of TextBlockStep that takes the terminator line for a
\* continuation line.
TextBlockStepKeepingDash(lines, i, fields, currentTag, currentLines, tagMatch) ==
  IF tagMatch.ok
  THEN TextBlockLoop(lines, i + 1,
                     SaveField(fields, currentTag, currentLines),
                     tagMatch.tag,
                     IF tagMatch.rest # "" THEN <<tagMatch.rest>> ELSE <<>>)
  ELSE IF currentTag # ""
  THEN TextBlockLoop(lines, i + 1, fields, currentTag,
                     Append(currentLines, lines[i]))
  ELSE TextBlockLoop(lines, i + 1, fields, currentTag, currentLines)

TextBlockStep(lines, i, fields, currentTag, currentLines, tagMatch) ==
  IF tagMatch.ok
  THEN TextBlockLoop(lines, i + 1,
                     SaveField(fields, currentTag, currentLines),
                     tagMatch.tag,
                     IF tagMatch.rest # "" THEN <<tagMatch.rest>> ELSE <<>>)
  ELSE IF currentTag # "" /\ lines[i] # "-"
  THEN TextBlockLoop(lines, i + 1, fields, currentTag,
                     Append(currentLines, lines[i]))
  ELSE TextBlockLoop(lines, i + 1, fields, currentTag, currentLines)

TextBlockLoop(lines, i, fields, currentTag, currentLines) ==
  IF i > Len(lines)
  THEN SaveField(fields, currentTag, currentLines)
  ELSE TextBlockStep(lines, i, fields, currentTag, currentLines,
                     TagMatch(lines[i]))

\* parseTextBlock(block)
parseTextBlock(block) ==
  TextBlockLoop(SplitLines(CleanBlock(block)), 1, <<>>, "", <<>>)

\* The record parseMtMessage fills from the blocks of the cleaned text: a
\* block is read when it is truthy (present and not empty).
ParsedBlocks(cleaned, blocks) ==
  LET got(n) == blocks[n].present /\ blocks[n].content # ""
  IN  [messageType       |-> IF got(2)
                             THEN parseApplicationHeader(blocks[2].content).messageType
                             ELSE "",
       basicHeader       |-> IF got(1) THEN parseBasicHeader(blocks[1].content)
                             ELSE [applicationId |-> "", serviceId |-> "",
                                   ltAddress |-> "", sessionNumber |-> "",
                                   sequenceNumber |-> ""],
       applicationHeader |-> IF got(2) THEN parseApplicationHeader(blocks[2].content)
                             ELSE [inputOutput |-> "", messageType |-> ""],
       hasUserHeader     |-> got(3),
       userHeader        |-> IF got(3) THEN parseUserHeader(blocks[3].content)
                             ELSE <<>>,
       textBlock         |-> IF got(4) THEN parseTextBlock(blocks[4].content)
                             ELSE <<>>,
       hasTrailers       |-> got(5),
       trailers          |-> IF got(5) THEN parseTrailers(blocks[5].content)
                             ELSE <<>>,
       rawMessage        |-> cleaned]

\* parseMtMessage, from the trimmed text on.
ParseCleaned(cleaned) == ParsedBlocks(cleaned, extractBlocks(cleaned))

\* parseMtMessage(rawMessage)
parseMtMessage(rawMessage) == ParseCleaned(Trim(rawMessage))

(***************************************************************************)
(* The validator (mtParser.ts).  An error or warning is the record the     *)
(* source pushes; a result with threw = TRUE stands for an exception       *)
(* leaving the function.                                                   *)
(***************************************************************************)

\* The mandatory loop over spec.fields[i..]: a MISSING_FIELD error for each
\* mandatory tag whose value is falsy or an empty array.
RECURSIVE MandatoryErrors(_, _, _)
MandatoryErrors(spec, i, fields) ==
  IF i > Len(spec) THEN <<>>
  ELSE LET fs      == spec[i]
           missing == \/ ~Truthy(fields, fs.tag)
                      \/ (ObjGet(fields, fs.tag).arr
                            /\ Len(ObjGet(fields, fs.tag).v) = 0)
       IN  (IF fs.mandatory /\ missing
            THEN <<[field |-> fs.tag, code |-> "MISSING_FIELD",
                    message |-> "Mandatory field " \o fs.tag \o " ("
                                  \o fs.name \o ") is missing"]>>
            ELSE <<>>)
           \o MandatoryErrors(spec, i + 1, fields)

SpecHasTag(spec, tag) == \E i \in 1..Len(spec) : spec[i].tag = tag

\* spec.fields.find(f => f.tag === tag), for a tag the specification lists.
SpecFind(spec, tag) ==
  spec[CHOOSE i \in 1..Len(spec) :
         spec[i].tag = tag /\ \A j \in 1..(i - 1) : spec[j].tag # tag]

\* A faulty variant of FormatErrors that reports a value as long as the
\* maximum length too.
RECURSIVE FormatErrorsFromMaximum(_, _, _)
FormatErrorsFromMaximum(spec, fields, i) ==
  IF i > Len(fields) THEN <<>>
  ELSE LET tag      == fields[i].key
           valueStr == JoinedValue(fields[i].value)
           tooLong  == /\ SpecHasTag(spec, tag)
                       /\ SpecFind(spec, tag).maxLength # 0
                       /\ Len(valueStr) >= SpecFind(spec, tag).maxLength
       IN  (IF tooLong
            THEN <<[field |-> tag, code |-> "FIELD_TOO_LONG",
                    message |-> "Field " \o tag \o " exceeds maximum length of "
                                  \o ToString(SpecFind(spec, tag).maxLength),
                    value |-> valueStr]>>
            ELSE <<>>)
           \o FormatErrorsFromMaximum(spec, fields, i + 1)

\* The format loop over Object.entries(parsed.textBlock)[i..]: the
\* FIELD_TOO_LONG errors, in entry order.
RECURSIVE FormatErrors(_, _, _)
FormatErrors(spec, fields, i) ==
  IF i > Len(fields) THEN <<>>
  ELSE LET tag      == fields[i].key
           valueStr == JoinedValue(fields[i].value)
           tooLong  == /\ SpecHasTag(spec, tag)
                       /\ SpecFind(spec, tag).maxLength # 0
                       /\ Len(valueStr) > SpecFind(spec, tag).maxLength
       IN  (IF tooLong
            THEN <<[field |-> tag, code |-> "FIELD_TOO_LONG",
                    message |-> "Field " \o tag \o " exceeds maximum length of "
                                  \o ToString(SpecFind(spec, tag).maxLength),
                    value |-> valueStr]>>
            ELSE <<>>)
           \o FormatErrors(spec, fields, i + 1)

\* The same loop's UNKNOWN_FIELD warnings, in entry order.
RECURSIVE FormatWarnings(_, _, _)
FormatWarnings(spec, fields, i) ==
  IF i > Len(fields) THEN <<>>
  ELSE (IF ~SpecHasTag(spec, fields[i].key)
        THEN <<[field |-> fields[i].key, code |-> "UNKNOWN_FIELD",
                message |-> "Unknown field tag: " \o fields[i].key,
                value |-> JoinedValue(fields[i].value)]>>
        ELSE <<>>)
       \o FormatWarnings(spec, fields, i + 1)

\* Array.isArray(x) ? x[0] : x is undefined: x is an empty array.
FirstIsUndefined(x) == x.arr /\ Len(x.v) = 0

\* Array.isArray(x) ? x[0] : x, when it is defined.
FirstLine(x) == x.v[1]

\* /^\d{6}[A-Z]{3}[\d,]+$/.test(s)
AmountShape(s) ==
  /\ Len(s) >= 10
  /\ AllIn(Slice(s, 0, 6), Digits)
  /\ AllIn(Slice(s, 6, 9), Upper)
  /\ AllIn(SliceFrom(s, 9), Digits \cup {","})

\* /^[CD]\d{6}[A-Z]{3}[\d,]+$/.test(s)
BalanceShape(s) == CharAt(s, 0) \in {"C", "D"} /\ AmountShape(SliceFrom(s, 1))

\* A faulty variant of MissingBeneficiary that looks at field 59 only.
MissingBeneficiary59Only(fields) == ~Truthy(fields, "59")

\* !fields['59'] && !fields['59A'] && !fields['59F']
MissingBeneficiary(fields) ==
  ~Truthy(fields, "59") /\ ~Truthy(fields, "59A") /\ ~Truthy(fields, "59F")

\* validateMt103Specifics(parsed, errors, warnings): what it pushes;
\* value.replace on an undefined value throws a TypeError.
validateMt103Specifics(fields) ==
  LET has32A == Truthy(fields, "32A")
      has71A == Truthy(fields, "71A")
      e32A == IF has32A
                 /\ ~AmountShape(StripWhitespace(FirstLine(ObjGet(fields, "32A"))))
              THEN <<[field |-> "32A", code |-> "INVALID_FORMAT",
                      message |-> "Field 32A format is invalid. Expected: YYMMDDCCCNNNN,NN",
                      value |-> FirstLine(ObjGet(fields, "32A"))]>>
              ELSE <<>>
      e71A == IF has71A /\ FirstIsUndefined(ObjGet(fields, "71A"))
              THEN <<[field |-> "71A", code |-> "INVALID_VALUE",
                      message |-> "Field 71A must be BEN, OUR, or SHA"]>>
              ELSE IF has71A
                      /\ FirstLine(ObjGet(fields, "71A")) \notin {"BEN", "OUR", "SHA"}
              THEN <<[field |-> "71A", code |-> "INVALID_VALUE",
                      message |-> "Field 71A must be BEN, OUR, or SHA",
                      value |-> FirstLine(ObjGet(fields, "71A"))]>>
              ELSE <<>>
      e59  == IF MissingBeneficiary(fields)
              THEN <<[field |-> "59", code |-> "MISSING_FIELD",
                      message |-> "Beneficiary customer (field 59, 59A, or 59F) is required"]>>
              ELSE <<>>
      w50  == IF ~Truthy(fields, "50A") /\ ~Truthy(fields, "50F")
                 /\ ~Truthy(fields, "50K")
              THEN <<[field |-> "50", code |-> "MISSING_FIELD",
                      message |-> "Ordering customer (field 50A, 50F, or 50K) is recommended"]>>
              ELSE <<>>
  IN  IF has32A /\ FirstIsUndefined(ObjGet(fields, "32A"))
      THEN [threw |-> TRUE, errors |-> <<>>, warnings |-> <<>>]
      ELSE [threw |-> FALSE, errors |-> e32A \o e71A \o e59, warnings |-> w50]

\* const balanceFields = ['60F', '60M', '62F', '62M', '64', '65']
balanceFields == <<"60F", "60M", "62F", "62M", "64", "65">>

\* The balance loop over balanceFields[i..]: the INVALID_FORMAT warnings.
RECURSIVE BalanceWarnings(_, _)
BalanceWarnings(fields, i) ==
  IF i > Len(balanceFields) THEN <<>>
  ELSE LET tag == balanceFields[i]
       IN  (IF Truthy(fields, tag)
               /\ ~BalanceShape(StripWhitespace(FirstLine(ObjGet(fields, tag))))
            THEN <<[field |-> tag, code |-> "INVALID_FORMAT",
                    message |-> "Field " \o tag
                       \o " format may be invalid. Expected: D/CYYMMDDCCCNNNN,NN",
                    value |-> FirstLine(ObjGet(fields, tag))]>>
            ELSE <<>>)
           \o BalanceWarnings(fields, i + 1)

\* A faulty variant of validateStatementSpecifics that reports a malformed
\* balance as an error.
validateStatementSpecificsStrict(fields) ==
  LET e60 == IF ~Truthy(fields, "60F") /\ ~Truthy(fields, "60M")
             THEN <<[field |-> "60F", code |-> "MISSING_FIELD",
                     message |-> "Opening balance (field 60F or 60M) is required"]>>
             ELSE <<>>
      e62 == IF ~Truthy(fields, "62F") /\ ~Truthy(fields, "62M")
             THEN <<[field |-> "62F", code |-> "MISSING_FIELD",
                     message |-> "Closing balance (field 62F or 62M) is required"]>>
             ELSE <<>>
      throws == \E i \in 1..Len(balanceFields) :
                   /\ Truthy(fields, balanceFields[i])
                   /\ FirstIsUndefined(ObjGet(fields, balanceFields[i]))
  IN  IF throws
      THEN [threw |-> TRUE, errors |-> <<>>, warnings |-> <<>>]
      ELSE [threw |-> FALSE,
            errors |-> e60 \o e62 \o BalanceWarnings(fields, 1),
            warnings |-> <<>>]

\* validateStatementSpecifics(parsed, errors, warnings): what it pushes;
\* balanceValue.replace on an undefined value throws a TypeError.
validateStatementSpecifics(fields) ==
  LET e60 == IF ~Truthy(fields, "60F") /\ ~Truthy(fields, "60M")
             THEN <<[field |-> "60F", code |-> "MISSING_FIELD",
                     message |-> "Opening balance (field 60F or 60M) is required"]>>
             ELSE <<>>
      e62 == IF ~Truthy(fields, "62F") /\ ~Truthy(fields, "62M")
             THEN <<[field |-> "62F", code |-> "MISSING_FIELD",
                     message |-> "Closing balance (field 62F or 62M) is required"]>>
             ELSE <<>>
      throws == \E i \in 1..Len(balanceFields) :
                   /\ Truthy(fields, balanceFields[i])
                   /\ FirstIsUndefined(ObjGet(fields, balanceFields[i]))
  IN  IF throws
      THEN [threw |-> TRUE, errors |-> <<>>, warnings |-> <<>>]
      ELSE [threw |-> FALSE, errors |-> e60 \o e62,
            warnings |-> BalanceWarnings(fields, 1)]

\* The result of a validation that threw.
Thrown == [threw |-> TRUE, error |-> "TypeError"]

\* A faulty variant of ValidationResult that lets a warning clear valid.
ValidationResultWithoutWarnings(parsed, errors, warnings) ==
  [threw |-> FALSE, valid |-> Len(errors) = 0 /\ Len(warnings) = 0,
   messageType |-> parsed.messageType, errors |-> errors,
   warnings |-> warnings, parsedFields |-> parsed.textBlock]

\* The value validateMtMessage returns at its end.
ValidationResult(parsed, errors, warnings) ==
  [threw |-> FALSE, valid |-> Len(errors) = 0,
   messageType |-> parsed.messageType, errors |-> errors,
   warnings |-> warnings, parsedFields |-> parsed.textBlock]

\* The type-specific validations validateMtMessage calls last.
SpecificValidations(messageType, fields) ==
  IF messageType = "103" THEN validateMt103Specifics(fields)
  ELSE IF messageType \in {"940", "950"} THEN validateStatementSpecifics(fields)
  ELSE [threw |-> FALSE, errors |-> <<>>, warnings |-> <<>>]

\* A faulty variant of ValidateAgainst that reports an unknown field as an
\* error.
ValidateAgainstKnownFieldsOnly(parsed, spec, specific) ==
  IF specific.threw THEN Thrown
  ELSE ValidationResult(parsed,
         MandatoryErrors(spec, 1, parsed.textBlock)
           \o FormatErrors(spec, parsed.textBlock, 1)
           \o FormatWarnings(spec, parsed.textBlock, 1) \o specific.errors,
         specific.warnings)

\* validateMtMessage once the specification is found: the mandatory loop,
\* the format loop, then what the type-specific validations pushed.
ValidateAgainst(parsed, spec, specific) ==
  IF specific.threw THEN Thrown
  ELSE ValidationResult(parsed,
         MandatoryErrors(spec, 1, parsed.textBlock)
           \o FormatErrors(spec, parsed.textBlock, 1) \o specific.errors,
         FormatWarnings(spec, parsed.textBlock, 1) \o specific.warnings)

\* A faulty variant of ValidateTyped that pushes the UNKNOWN_TYPE error but
\* goes on to the format loop with an empty specification instead of
\* returning.
ValidateTypedWithoutReturn(parsed, messageType) ==
  IF "MT" \o messageType \notin MT_SPEC_KEYS
  THEN [threw |-> FALSE, valid |-> FALSE, messageType |-> parsed.messageType,
        errors |-> <<[field |-> "messageType", code |-> "UNKNOWN_TYPE",
                      message |-> "Unknown message type: " \o parsed.messageType,
                      value |-> parsed.messageType]>>,
        warnings |-> FormatWarnings(<<>>, parsed.textBlock, 1),
        parsedFields |-> parsed.textBlock]
  ELSE ValidateAgainst(parsed, MT_SPECS("MT" \o messageType),
                       SpecificValidations(messageType, parsed.textBlock))

\* validateMtMessage, from the message type without its first "MT" on.
ValidateTyped(parsed, messageType) ==
  IF "MT" \o messageType \notin MT_SPEC_KEYS
  THEN [threw |-> FALSE, valid |-> FALSE, messageType |-> parsed.messageType,
        errors |-> <<[field |-> "messageType", code |-> "UNKNOWN_TYPE",
                      message |-> "Unknown message type: " \o parsed.messageType,
                      value |-> parsed.messageType]>>,
        warnings |-> <<>>, parsedFields |-> parsed.textBlock]
  ELSE ValidateAgainst(parsed, MT_SPECS("MT" \o messageType),
                       SpecificValidations(messageType, parsed.textBlock))

\* validateMtMessage(parsed) for a decoded record.
validateMtMessage(parsed) ==
  ValidateTyped(parsed, ReplaceFirst(parsed.messageType, "MT", ""))

\* validateMtMessage(message) for a raw text: decoded first.
validateMtText(message) == validateMtMessage(parseMtMessage(message))

(***************************************************************************)
(* The generator (generateMtMessage, second half of mtParser.ts).  An       *)
(* input's fields map every field name to a string, '' standing for a      *)
(* field that is not supplied: the source tests a field for truthiness     *)
(* before it reads it, and undefined and '' fail that test alike.  A step  *)
(* of a content builder either throws (err is the Error's message) or      *)
(* pushes lines.                                                           *)
(***************************************************************************)

FieldNames ==
  {"senderReference", "bankOperationCode", "valueDate", "currency", "amount",
   "instructedCurrency", "instructedAmount", "orderingCustomerAccount",
   "orderingCustomerName", "orderingInstitution", "sendersCorrespondent",
   "receiversCorrespondent", "intermediaryInstitution",
   "accountWithInstitution", "beneficiaryAccount", "beneficiaryName",
   "remittanceInfo", "charges", "senderToReceiverInfo",
   "transactionReference", "relatedReference", "intermediary",
   "beneficiaryInstitution", "accountId", "statementNumber",
   "openingBalance", "statementLines", "closingBalance",
   "closingAvailableBalance", "uetr", "mur"}

\* The leading run of decimal digits of s.
RECURSIVE LeadingDigits(_)
LeadingDigits(s) ==
  IF s # "" /\ Head(s) \in Digits THEN Head(s) \o LeadingDigits(Tail(s)) ELSE ""

\* parseFloat(amount) for decimal notation: leading white space skipped, an
\* optional sign, digits, an optional fraction; what follows is ignored.
\* The value is kept exactly, in hundredths, which is exact for at most
\* two fraction digits (further digits are cut); NaN when no digit is read.
\* ParsedNumber is the number read from a sign, integer digits and fraction
\* digits; ParseDigits reads the integer digits of the unsigned text and
\* the fraction digits after a "."; ParseSigned reads the sign.
ParsedNumber(negative, int, frac) ==
  [nan        |-> int = "" /\ frac = "",
   negative   |-> negative,
   hundredths |-> 100 * DigitsToNat(int)
                    + DigitsToNat(Slice(frac \o "00", 0, 2))]

ParseFraction(negative, int, afterInt) ==
  ParsedNumber(negative, int,
               IF afterInt # "" /\ Head(afterInt) = "."
               THEN LeadingDigits(Tail(afterInt)) ELSE "")

ParseDigits(negative, body, int) ==
  ParseFraction(negative, int, SliceFrom(body, Len(int)))

ParseUnsigned(negative, body) ==
  ParseDigits(negative, body, LeadingDigits(body))

ParseSigned(t) ==
  IF t # "" /\ Head(t) \in {"+", "-"}
  THEN ParseUnsigned(Head(t) = "-", Tail(t))
  ELSE ParseUnsigned(FALSE, t)

parseFloat(amount) == ParseSigned(TrimStart(amount))

\* numAmount.toFixed(2)
toFixed2(n) ==
  LET whole == n.hundredths \div 100
      cents == n.hundredths % 100
  IN  (IF n.negative /\ n.hundredths > 0 THEN "-" ELSE "")
        \o ToString(whole) \o "."
        \o (IF cents < 10 THEN "0" ELSE "") \o ToString(cents)

\* formatSwiftAmount(amount): err is set when it throws.
\* A faulty variant of FormatNumber that keeps the decimal point.
FormatNumberWithPoint(amount, numAmount) ==
  IF numAmount.nan
  THEN [err |-> "Invalid amount: " \o amount, text |-> ""]
  ELSE [err |-> "", text |-> toFixed2(numAmount)]

\* formatSwiftAmount, from the parsed number on.
FormatNumber(amount, numAmount) ==
  IF numAmount.nan
  THEN [err |-> "Invalid amount: " \o amount, text |-> ""]
  ELSE [err |-> "", text |-> ReplaceFirst(toFixed2(numAmount), ".", ",")]

formatSwiftAmount(amount) == FormatNumber(amount, parseFloat(amount))

\* A step that pushes `line` when cond holds.
Emit(cond, line) == [err |-> "", lines |-> IF cond THEN <<line>> ELSE <<>>]

\* A step that pushes `prefix` followed by the formatted amount when cond
\* holds, and throws when the amount does not format.
EmitFormatted(prefix, formatted) ==
  IF formatted.err # "" THEN [err |-> formatted.err, lines |-> <<>>]
  ELSE Emit(TRUE, prefix \o formatted.text)

EmitAmount(cond, prefix, amount) ==
  IF ~cond THEN Emit(FALSE, "")
  ELSE EmitFormatted(prefix, formatSwiftAmount(amount))

\* A step that throws msg when cond holds.
ThrowIf(cond, msg) == [err |-> IF cond THEN msg ELSE "", lines |-> <<>>]

RECURSIVE StepLines(_)
StepLines(steps) ==
  IF Len(steps) = 0 THEN <<>> ELSE Head(steps).lines \o StepLines(Tail(steps))

\* The steps run in order: the first throw ends the builder, else the
\* content is lines.join('\r\n') + '\r\n'.
RunSteps(steps) ==
  IF \E i \in 1..Len(steps) : steps[i].err # ""
  THEN [err  |-> steps[CHOOSE i \in 1..Len(steps) :
                         /\ steps[i].err # ""
                         /\ \A j \in 1..(i - 1) : steps[j].err = ""].err,
        text |-> ""]
  ELSE [err |-> "", text |-> Join(StepLines(steps), "\r\n") \o "\r\n"]

\* The lines pushed for statementLines.split('|').
LineSteps(parts) == [i \in 1..Len(parts) |-> Emit(TRUE, ":61:" \o parts[i])]

StatementLineSteps(statementLines) ==
  IF statementLines = "" THEN <<>>
  ELSE LineSteps(SplitOn(statementLines, "|"))

\* generateMT103Content(fields)
generateMT103Content(f) ==
  LET opCode  == IF f.bankOperationCode # "" THEN f.bankOperationCode ELSE "CRED"
      charges == IF f.charges # "" THEN f.charges ELSE "SHA"
      field50 == ":50K:"
                   \o (IF f.orderingCustomerAccount # ""
                       THEN "/" \o f.orderingCustomerAccount \o "\r\n" ELSE "")
                   \o f.orderingCustomerName
      field59 == ":59:"
                   \o (IF f.beneficiaryAccount # ""
                       THEN "/" \o f.beneficiaryAccount \o "\r\n" ELSE "")
                   \o f.beneficiaryName
  IN  RunSteps(<<
        Emit(f.senderReference # "", ":20:" \o f.senderReference),
        ThrowIf(~HasTruthyEntry(BANK_OPERATION_CODES, opCode),
                "Invalid bank operation code: " \o opCode),
        Emit(TRUE, ":23B:" \o opCode),
        EmitAmount(f.valueDate # "" /\ f.currency # "" /\ f.amount # "",
                   ":32A:" \o f.valueDate \o f.currency, f.amount),
        EmitAmount(f.instructedCurrency # "" /\ f.instructedAmount # "",
                   ":33B:" \o f.instructedCurrency, f.instructedAmount),
        Emit(f.orderingCustomerAccount # "" \/ f.orderingCustomerName # "", field50),
        Emit(f.orderingInstitution # "", ":52A:" \o f.orderingInstitution),
        Emit(f.sendersCorrespondent # "", ":53A:" \o f.sendersCorrespondent),
        Emit(f.receiversCorrespondent # "", ":54A:" \o f.receiversCorrespondent),
        Emit(f.intermediaryInstitution # "", ":56A:" \o f.intermediaryInstitution),
        Emit(f.accountWithInstitution # "", ":57A:" \o f.accountWithInstitution),
        Emit(f.beneficiaryAccount # "" \/ f.beneficiaryName # "", field59),
        Emit(f.remittanceInfo # "", ":70:" \o f.remittanceInfo),
        ThrowIf(~HasTruthyEntry(CHARGE_CODES, charges),
                "Invalid charge code: " \o charges),
        Emit(TRUE, ":71A:" \o charges),
        Emit(f.senderToReceiverInfo # "", ":72:" \o f.senderToReceiverInfo)>>)

\* generateMT202Content(fields)
generateMT202Content(f) ==
  RunSteps(<<
    Emit(f.transactionReference # "", ":20:" \o f.transactionReference),
    Emit(f.relatedReference # "", ":21:" \o f.relatedReference),
    EmitAmount(f.valueDate # "" /\ f.currency # "" /\ f.amount # "",
               ":32A:" \o f.valueDate \o f.currency, f.amount),
    Emit(f.orderingInstitution # "", ":52A:" \o f.orderingInstitution),
    Emit(f.sendersCorrespondent # "", ":53A:" \o f.sendersCorrespondent),
    Emit(f.receiversCorrespondent # "", ":54A:" \o f.receiversCorrespondent),
    Emit(f.intermediary # "", ":56A:" \o f.intermediary),
    Emit(f.accountWithInstitution # "", ":57A:" \o f.accountWithInstitution),
    Emit(f.beneficiaryInstitution # "", ":58A:" \o f.beneficiaryInstitution),
    Emit(f.senderToReceiverInfo # "", ":72:" \o f.senderToReceiverInfo)>>)

\* generateMT940Content(fields)
generateMT940Content(f) ==
  RunSteps(
    <<Emit(f.transactionReference # "", ":20:" \o f.transactionReference),
      Emit(f.accountId # "", ":25:" \o f.accountId),
      Emit(f.statementNumber # "", ":28C:" \o f.statementNumber),
      Emit(f.openingBalance # "", ":60F:" \o f.openingBalance)>>
    \o StatementLineSteps(f.statementLines)
    \o <<Emit(f.closingBalance # "", ":62F:" \o f.closingBalance),
         Emit(f.closingAvailableBalance # "",
              ":64:" \o f.closingAvailableBalance)>>)

\* generateMT950Content(fields)
generateMT950Content(f) ==
  RunSteps(
    <<Emit(f.transactionReference # "", ":20:" \o f.transactionReference),
      Emit(f.accountId # "", ":25:" \o f.accountId),
      Emit(f.statementNumber # "", ":28C:" \o f.statementNumber),
      Emit(f.openingBalance # "", ":60F:" \o f.openingBalance)>>
    \o StatementLineSteps(f.statementLines)
    \o <<Emit(f.closingBalance # "", ":62F:" \o f.closingBalance)>>)

\* normalizeBicTo12(bic)
\* A faulty variant of normalizeBicTo12 that pads to the 11-character form.
normalizeBicTo11(bic) == IF Len(bic) = 8 THEN bic \o "XXX" ELSE bic

normalizeBicTo12(bic) ==
  IF Len(bic) = 8 THEN bic \o "XXXX"
  ELSE IF Len(bic) = 11 THEN bic \o "X"
  ELSE bic

\* generateBlock1(senderBic)
generateBlock1(senderBic) == "{1:F01" \o senderBic \o "0000" \o "000000" \o "}"

\* generateBlock2(messageType, receiverBic)
generateBlock2(messageType, receiverBic) ==
  "{2:I" \o messageType \o receiverBic \o "N" \o "" \o "}"

\* generateBlock3(fields)
generateBlock3(f) ==
  LET headerFields ==
        (IF f.uetr # "" THEN <<"{121:" \o f.uetr \o "}">> ELSE <<>>)
          \o (IF f.mur # "" THEN <<"{108:" \o f.mur \o "}">> ELSE <<>>)
  IN  IF Len(headerFields) = 0 THEN ""
      ELSE "{3:" \o Join(headerFields, "") \o "}"

\* The return of generateBlock4: the content between "{4:" and "-}".
WrapContent(content) ==
  IF content.err # "" THEN content
  ELSE [err |-> "", text |-> "{4:\r\n" \o content.text \o "-}"]

\* generateBlock4(messageType, fields): err is set when it throws.
generateBlock4(messageType, f) ==
  WrapContent(
    CASE messageType = "103" -> generateMT103Content(f)
      [] messageType = "202" -> generateMT202Content(f)
      [] messageType = "940" -> generateMT940Content(f)
      [] messageType = "950" -> generateMT950Content(f)
      [] OTHER -> [err  |-> "Unsupported message type: MT" \o messageType,
                   text |-> ""])

\* generateBlock5()
generateBlock5 == "{5:}"

\* The outcome of a generation that threw: no text.
Threw(msg) == [threw |-> TRUE, error |-> msg, text |-> ""]

\* The return of generateMtMessage: the five blocks in order, unless
\* generateBlock4 threw.
JoinBlocks(block1, block2, block3, block4, block5) ==
  IF block4.err # "" THEN Threw(block4.err)
  ELSE [threw |-> FALSE, error |-> "",
        text  |-> block1 \o block2 \o block3 \o block4.text \o block5]

\* generateMtMessage once both BICs are found valid.
GenerateBlocks(type, normalizedSender, normalizedReceiver, fields) ==
  JoinBlocks(generateBlock1(normalizedSender),
             generateBlock2(type, normalizedReceiver),
             generateBlock3(fields),
             generateBlock4(type, fields),
             generateBlock5)

\* A faulty variant of GenerateValidated that checks the receiver first.
GenerateValidatedReceiverFirst(input, senderValidation, receiverValidation) ==
  IF ~receiverValidation.valid
  THEN Threw("Invalid receiver BIC: " \o Join(receiverValidation.errors, ", "))
  ELSE IF ~senderValidation.valid
  THEN Threw("Invalid sender BIC: " \o Join(senderValidation.errors, ", "))
  ELSE GenerateBlocks(ReplaceFirst(input.messageType, "MT", ""),
                      normalizeBicTo12(senderValidation.normalized),
                      normalizeBicTo12(receiverValidation.normalized),
                      input.fields)

\* generateMtMessage, from the two BIC validations on.
GenerateValidated(input, senderValidation, receiverValidation) ==
  IF ~senderValidation.valid
  THEN Threw("Invalid sender BIC: " \o Join(senderValidation.errors, ", "))
  ELSE IF ~receiverValidation.valid
  THEN Threw("Invalid receiver BIC: " \o Join(receiverValidation.errors, ", "))
  ELSE GenerateBlocks(ReplaceFirst(input.messageType, "MT", ""),
                      normalizeBicTo12(senderValidation.normalized),
                      normalizeBicTo12(receiverValidation.normalized),
                      input.fields)

\* generateMtMessage(input)
generateMtMessage(input) ==
  GenerateValidated(input, validateBic(input.senderBic),
                    validateBic(input.receiverBic))

(***************************************************************************)
(* The inputs of the model: generator inputs, and hand-written messages    *)
(* rendered the way the test suite writes its samples.                     *)
(***************************************************************************)

\* The largest number of '|'-separated statement lines of an input.
MaxStatementLines == 2

\* The largest number of physical lines of a hand-written field value.
MaxLines == 3

\* The largest number of fields with a reported result put in front of a
\* hand-written block 4.
MaxReported == 3

\* The largest number of characters by which a hand-written value differs
\* from the maximum length of its field.
MaxMargin == 1

NoFields == [n \in FieldNames |-> ""]

Mandatory103 ==
  [NoFields EXCEPT !.senderReference = "REF1", !.valueDate = "240101",
                   !.currency = "USD", !.amount = "100",
                   !.beneficiaryName = "NAME"]

Full103 ==
  [Mandatory103 EXCEPT
     !.bankOperationCode = "SPAY", !.amount = "1000.5",
     !.instructedCurrency = "EUR", !.instructedAmount = "900",
     !.orderingCustomerAccount = "ACC1", !.orderingCustomerName = "JOHN DOE",
     !.orderingInstitution = "ORDIDEFF", !.sendersCorrespondent = "SCORUS33",
     !.receiversCorrespondent = "RCORGB2L",
     !.intermediaryInstitution = "INTEFRPP",
     !.accountWithInstitution = "ACWIITMM", !.beneficiaryAccount = "ACC2",
     !.remittanceInfo = "INVOICE 1", !.charges = "OUR",
     !.senderToReceiverInfo = "/INS/X", !.uetr = "UETR-1", !.mur = "MUR1"]

Mandatory202 ==
  [NoFields EXCEPT !.transactionReference = "TRN1", !.relatedReference = "REL1",
                   !.valueDate = "240101", !.currency = "EUR", !.amount = "5",
                   !.beneficiaryInstitution = "BENEFRPP"]

Full202 ==
  [Mandatory202 EXCEPT
     !.orderingInstitution = "ORDIDEFF", !.sendersCorrespondent = "SCORUS33",
     !.receiversCorrespondent = "RCORGB2L", !.intermediary = "INTEFRPP",
     !.accountWithInstitution = "ACWIITMM", !.senderToReceiverInfo = "/INS/X",
     !.uetr = "UETR-1", !.mur = "MUR1"]

MandatoryStatement ==
  [NoFields EXCEPT !.transactionReference = "STMT1", !.accountId = "12345678",
                   !.statementNumber = "1/1",
                   !.openingBalance = "C240101USD10,00",
                   !.closingBalance = "C240101USD15,00"]

\* n statement lines joined by '|'.
StatementLinesOf(n) ==
  Join([i \in 1..n |-> "240101C" \o ToString(i) \o ",00NTRFREF"], "|")

FullStatement(n) ==
  [MandatoryStatement EXCEPT
     !.statementLines = StatementLinesOf(n),
     !.closingAvailableBalance = "C240101USD15,00", !.mur = "MUR1"]

\* The message type an input names, without its MT prefix.
TypeDigits(messageType) == ReplaceFirst(messageType, "MT", "")

\* The well-formed field sets of a message type: the mandatory values
\* only, and every value the type's builder reads.
WellFormedFields(type) ==
  CASE type = "103" -> {Mandatory103, Full103}
    [] type = "202" -> {Mandatory202, Full202}
    [] type \in {"940", "950"} ->
         {MandatoryStatement}
           \cup { FullStatement(n) : n \in 1..MaxStatementLines }
    [] OTHER -> {Mandatory103}

\* The single changes applied to a well-formed field set: a mandatory
\* value withdrawn, an enumerated code replaced, an amount replaced.
Changes(type) ==
  CASE type = "103" ->
         { <<n, "">> : n \in {"senderReference", "valueDate", "currency",
                              "amount", "beneficiaryName",
                              "beneficiaryAccount"} }
           \cup { <<"bankOperationCode", v>> :
                    v \in {"SPRI", "XXXX", "cred", "constructor"} }
           \cup { <<"charges", v>> : v \in {"BEN", "ABC", "sha", "toString"} }
           \cup { <<"amount", v>> : v \in {"abc", "-5", "0.07"} }
    [] type = "202" ->
         { <<n, "">> : n \in {"transactionReference", "relatedReference",
                              "amount", "beneficiaryInstitution"} }
    [] type \in {"940", "950"} ->
         { <<n, "">> : n \in {"transactionReference", "accountId",
                              "statementNumber", "openingBalance",
                              "closingBalance"} }
    [] OTHER -> {}

ChangedFields(type) ==
  WellFormedFields(type)
    \cup { [f EXCEPT ![c[1]] = c[2]] : f \in WellFormedFields(type),
                                       c \in Changes(type) }

SenderBics ==
  {"DEUTDEFF", "DEUTDEFF500", "deut de ff", "DEUTDEF", "DEUTXXFF", "DEUTDE0F", ""}

ReceiverBics == {"CHASUS33XXX", "NWBKGB2L", "CHASUS3", "CHAS12US"}

MessageTypes == {"MT103", "MT202", "MT940", "MT950", "103", "MT999"}

\* The inputs handed to generateMtMessage.
GenInputs ==
  UNION { { [messageType |-> t, senderBic |-> "DEUTDEFF",
             receiverBic |-> "CHASUS33XXX", fields |-> f] :
              f \in ChangedFields(TypeDigits(t)) } : t \in MessageTypes }
  \cup
  UNION { { [messageType |-> t, senderBic |-> s, receiverBic |-> r,
             fields |-> f] :
              f \in WellFormedFields(TypeDigits(t)),
              s \in SenderBics, r \in ReceiverBics } : t \in MT_SPEC_KEYS }

\* A hand-written message: the content of block 2 ("" for no block 2),
\* whether the blocks are delimited at all, the fields of block 4 in
\* order, each a tag and its physical lines (the first is the text after
\* the tag), whether the terminator line closes the block, and the line
\* break used.
Doc(header, wrapped, fields, terminator, eol) ==
  [header |-> header, wrapped |-> wrapped, fields |-> fields,
   terminator |-> terminator, eol |-> eol]

Fld(tag, lines) == [tag |-> tag, lines |-> lines]

\* The physical lines of a field: the tag line, then the other lines.
FieldLines(fld) ==
  <<":" \o fld.tag \o ":" \o fld.lines[1]>> \o Tail(fld.lines)

RECURSIVE DocLines(_)
DocLines(fields) ==
  IF Len(fields) = 0 THEN <<>>
  ELSE FieldLines(Head(fields)) \o DocLines(Tail(fields))

\* The raw text of a hand-written message.
Render(doc) ==
  LET body == Join(DocLines(doc.fields)
                     \o (IF doc.terminator THEN <<"-">> ELSE <<>>), doc.eol)
  IN  IF ~doc.wrapped THEN body
      ELSE "{1:F01CHABORPLAXXX0000000000}"
             \o (IF doc.header # "" THEN "{2:" \o doc.header \o "}" ELSE "")
             \o "{4:" \o doc.eol \o body \o "}"

\* Block 2 of an output message of the type with the given digits.
OutputHeader(digits) ==
  "O" \o digits \o "1230210315CHAABORPLAXXX00000000002103151230N"

\* Block 2 of an input message of the type with the given digits.
InputHeader(digits) == "I" \o digits \o "BANKDEFFXXXXN"

\* The subsequence of fields whose tag is in tags.
Pick(fields, tags) == SelectSeq(fields, LAMBDA x : x.tag \in tags)

\* Credit transfers: 20, 23B, 32A and 71A well-formed, with any choice of
\* ordering customer and of the three beneficiary encodings.
CreditFields ==
  <<Fld("20", <<"REF1">>), Fld("23B", <<"CRED">>),
    Fld("32A", <<"240101USD100,00">>), Fld("50K", <<"/ACC1", "JOHN DOE">>),
    Fld("59", <<"/ACC2", "JANE SMITH">>), Fld("59A", <<"BENEFRPP">>),
    Fld("59F", <<"1/JANE", "2/OAK AVENUE">>), Fld("71A", <<"SHA">>)>>

CreditDocs ==
  { Doc(OutputHeader("103"), TRUE,
        Pick(CreditFields, {"20", "23B", "32A", "71A"} \cup opt), TRUE, eol) :
      opt \in SUBSET {"50K", "59", "59A", "59F"}, eol \in {"\r\n", "\n"} }

\* Statements: 20, 25 and 28C well-formed, with any choice of the balance
\* variants.
StatementFields ==
  <<Fld("20", <<"STMT1">>), Fld("25", <<"12345678">>), Fld("28C", <<"1/1">>),
    Fld("60F", <<"C240101USD10,00">>), Fld("60M", <<"C240101USD10,00">>),
    Fld("61", <<"240101C5,00NTRFREF">>),
    Fld("62F", <<"C240101USD15,00">>), Fld("62M", <<"C240101USD15,00">>)>>

StatementDocs ==
  { Doc(h, TRUE, Pick(StatementFields, {"20", "25", "28C", "61"} \cup opt),
        TRUE, "\r\n") :
      h \in {OutputHeader("940"), InputHeader("950")},
      opt \in SUBSET {"60F", "60M", "62F", "62M"} }

\* Messages of no registered type: an unregistered or truncated type, a
\* block 2 of neither variant, no block 2, no delimited block at all.
OtherTypeDocs ==
  { Doc(h, TRUE, f, TRUE, "\r\n") :
      h \in {OutputHeader("999"), InputHeader("101"), "O10", "X103", ""},
      f \in {<<>>, Pick(CreditFields, {"20", "23B", "32A", "59", "71A"}),
             <<Fld("20", <<"A REFERENCE OF MORE THAN 16">>),
               Fld("99Z", <<"X">>)>>} }
  \cup
  { Doc("", FALSE, f, t, "\r\n") :
      f \in {<<>>, Pick(CreditFields, {"20", "23B", "32A", "59", "71A"})},
      t \in BOOLEAN }

\* The lines a hand-written multi-line value is made of.
ValueLines == {"", "-", "LINE", "X:20:Y"}

\* The sequences of 1..n lines over ValueLines.
RECURSIVE LinesUpTo(_)
LinesUpTo(n) ==
  IF n = 0 THEN {}
  ELSE { <<l>> : l \in ValueLines }
         \cup LinesUpTo(n - 1)
         \cup { Append(ls, l) : ls \in LinesUpTo(n - 1), l \in ValueLines }

\* Credit transfers whose field 70 holds up to MaxLines lines: followed by
\* another field or last in the block, with and without the terminator.
MultiLineDocs ==
  { Doc(OutputHeader("103"), TRUE,
        <<Fld("20", <<"REF1">>), Fld("70", ls)>> \o rest, t, "\r\n") :
      ls \in LinesUpTo(MaxLines),
      rest \in {<<>>, <<Fld("71A", <<"SHA">>)>>}, t \in BOOLEAN }

\* n copies of the character c.
RECURSIVE Repeat(_, _)
Repeat(c, n) == IF n = 0 THEN "" ELSE c \o Repeat(c, n - 1)

\* Fields whose results the format loop reports: 20 and 77B longer than
\* their maximum length, 98 and 99Z unknown to MT103.
ReportedFields ==
  {Fld("20", <<"A REFERENCE OF MORE THAN 16">>),
   Fld("77B", <<Repeat("X", 106)>>),
   Fld("98", <<"X">>), Fld("99Z", <<"Y">>)}

\* The sequences of at most n distinct elements of S.
RECURSIVE Arrangements(_, _)
Arrangements(S, n) ==
  IF n = 0 THEN {<<>>}
  ELSE Arrangements(S, n - 1)
         \cup { Append(a, x) : a \in Arrangements(S, n - 1), x \in S }

\* Credit transfers whose block 4 opens with up to MaxReported of the
\* reported fields in any order of appearance, followed by the other
\* mandatory fields or by 32A alone.
OrderDocs ==
  { Doc(OutputHeader("103"), TRUE, first \o Pick(CreditFields, rest), TRUE, "\r\n") :
      first \in { a \in Arrangements(ReportedFields, MaxReported) :
                    \A i, j \in 1..Len(a) : i # j => a[i] # a[j] },
      rest \in {{"23B", "32A", "59", "71A"}, {"32A"}} }

\* The number of characters by which a hand-written value falls short of
\* (negative) or exceeds (positive) the maximum length of its field.
LengthMargins == (0 - MaxMargin)..MaxMargin

\* Credit transfers whose field 20 (maximum 16) and four-line field 70
\* (maximum 140) are as long as their maximum plus a margin, with a field
\* 23B (no maximum) of 4 or of 50 characters.
CreditLengthDocs ==
  { Doc(OutputHeader("103"), TRUE,
        <<Fld("20", <<Repeat("R", 16 + m20)>>), Fld("23B", <<code>>),
          Fld("32A", <<"240101USD100,00">>), Fld("59", <<"/ACC2", "JANE SMITH">>),
          Fld("70", <<Repeat("A", 35), Repeat("B", 35), Repeat("C", 35),
                      Repeat("D", 32 + m70)>>),
          Fld("71A", <<"SHA">>)>>,
        TRUE, eol) :
      m20 \in LengthMargins, m70 \in LengthMargins,
      code \in {"CRED", Repeat("X", 50)}, eol \in {"\r\n", "\n"} }

\* Statements whose field 25 (maximum 35) is as long as its maximum plus a
\* margin.
StatementLengthDocs ==
  { Doc(InputHeader("940"), TRUE,
        <<Fld("20", <<"STMT1">>), Fld("25", <<Repeat("9", 35 + m25)>>),
          Fld("28C", <<"1/1">>), Fld("60F", <<"C240101USD10,00">>),
          Fld("62F", <<"C240101USD15,00">>)>>,
        TRUE, "\r\n") :
      m25 \in LengthMargins }

LengthDocs == CreditLengthDocs \cup StatementLengthDocs

\* Credit transfers whose field 70 is opened twice, the occurrences next
\* to each other or apart, each with one, two or no value line.
RepeatedTagDocs ==
  { Doc(OutputHeader("103"), TRUE,
        <<Fld("20", <<"REF1">>), Fld("70", a)>> \o between \o <<Fld("70", b)>>,
        TRUE, "\r\n") :
      a \in {<<"FIRST">>, <<"FIRST", "MORE">>, <<"">>},
      b \in {<<"LAST">>, <<"LAST", "MORE">>, <<"">>},
      between \in {<<>>, <<Fld("71A", <<"SHA">>)>>} }

Docs ==
  CreditDocs \cup StatementDocs \cup OtherTypeDocs \cup MultiLineDocs
    \cup OrderDocs \cup LengthDocs \cup RepeatedTagDocs

\* Balanced payloads of block 3: no sub-field, sub-fields nested one deep,
\* and braces nested two and three deep.
Payloads == {"", "{108:X}", "{108:X}{121:Y}", "{108:{X}}", "{108:{A{B}}}"}

\* A message whose block 3 holds the payload.
Nested(payload) ==
  "{1:F01CHABORPLAXXX0000000000}{2:I103BANKDEFFXXXXN}{3:" \o payload
    \o "}{4:\r\n:20:REF1\r\n-}"

\* Texts whose delimiters are unbalanced: a block that is never closed
\* (alone, after a closed block, before one), a brace with no partner.
UnbalancedTexts ==
  {"{4:", "{4:\r\n:20:REF1\r\n-", "{2:I103BANKDEFFXXXXN",
   "{1:F01CHABORPLAXXX0000000000}{4:\r\n:20:REF1\r\n-",
   "{1:F01CHABORPLAXXX0000000000{4:\r\n:20:REF1\r\n-}",
   "}{", ":20:REF1\r\n}"}

\* Texts without any brace: bodies supplied without header wrapping, with
\* white space around them, and texts that hold no field.
BareTexts ==
  {"", "   ", "hello", ":20:REF1\r\n:23B:CRED",
   "  \r\n:20:REF1\r\n:70:A\r\nB\r\n-\r\n ", ":70:A\n-\nB"}

\* Texts with a block whose number is not one of 1 to 5.
OtherBlockTexts ==
  {"{7:ABC}", "{0:Z}{4:\r\n:20:REF1\r\n-}",
   "{1:F01CHABORPLAXXX0000000000}{4:\r\n:20:REF1\r\n-}{9:}"}

\* The raw texts handed to parseMtMessage as they are.
RawTexts ==
  { Nested(p) : p \in Payloads } \cup UnbalancedTexts \cup BareTexts
    \cup OtherBlockTexts

\* The record parseMtMessage starts from (its `result` initializer).
EmptyRecord ==
  [messageType       |-> "",
   basicHeader       |-> [applicationId |-> "", serviceId |-> "", ltAddress |-> "",
                          sessionNumber |-> "", sequenceNumber |-> ""],
   applicationHeader |-> [inputOutput |-> "", messageType |-> ""],
   hasUserHeader     |-> FALSE,
   userHeader        |-> <<>>,
   textBlock         |-> <<>>,
   hasTrailers       |-> FALSE,
   trailers          |-> <<>>,
   rawMessage        |-> ""]

\* The values a caller-built record may hold for a tag: an empty value, an
\* empty sequence, a scalar, a one-line and a two-line sequence.
BuiltValues(good) ==
  {Scalar(""), Arr(<<>>), Scalar(good), Arr(<<good>>), Arr(<<good, "MORE">>)}

\* Records built by a caller and passed to validateMtMessage directly:
\* every mandatory tag of the type well-formed, and one tag among 32A, 71A
\* and the balance tags holding a built value.
BuiltTextBlock(type, tag, value) ==
  LET base == IF type = "MT103"
              THEN Pick(CreditFields, {"20", "23B", "32A", "59", "71A"})
              ELSE Pick(StatementFields, {"20", "25", "28C", "60F", "62F"})
      obj  == parseTextBlock(Join(DocLines(base), "\r\n"))
  IN  ObjSet(obj, tag, value)

BuiltRecords ==
  { [EmptyRecord EXCEPT !.messageType = "MT103",
                        !.textBlock = BuiltTextBlock("MT103", tv[1], v)] :
      tv \in {<<"32A", "240101USD100,00">>, <<"71A", "OUR">>},
      v \in BuiltValues("240101USD100,00") \cup BuiltValues("OUR") }
  \cup
  { [EmptyRecord EXCEPT !.messageType = t,
                        !.textBlock = BuiltTextBlock(t, tag, v)] :
      t \in {"MT940", "MT950"}, tag \in {"60F", "60M", "62F", "62M", "64", "65"},
      v \in BuiltValues("C240101USD10,00") }
  \cup
  { [EmptyRecord EXCEPT !.messageType = t,
                        !.textBlock = BuiltTextBlock("MT103", "32A", v)] :
      t \in {"", "MT999", "MT202"}, v \in BuiltValues("240101USD100,00") }

(***************************************************************************)
(* The state machine: one call of the codec per step.                      *)
(***************************************************************************)

VARIABLES
  op,       \* the call made last
  input,    \* the input of the last generateMtMessage call
  wire,     \* what that call returned or threw
  doc,      \* the hand-written message decoded last
  raw,      \* the raw text handed to the decoder
  parsed,   \* the decoded (or caller-built) record
  result,   \* what validateMtMessage returned or threw for it
  removed,  \* the tag the caller deleted from the record before revalidating
  changed,  \* the tag of the field the caller added or replaced
  before,   \* the result of the validation before the caller's change
  params,   \* the node parameters of the last MT Generate execution
  registry, \* the registered specifications and code tables
  log,      \* the calls callers have made, in the order they ran
  bic,      \* the string handed to validateBic last
  verdict,  \* what validateBic returned for it
  ibanInput,      \* the input handed to generateIban last
  ibanResult,     \* what generateIban returned or threw for it
  items,          \* the input items of the node execution
  continueOnFail, \* the node's continue-on-fail setting
  itemIndex,      \* the loop index i of execute
  returnData,     \* the output entries execute has pushed
  run             \* how the execution stands: what it returned or threw

\* The state of one caller's chain of calls.
chainVars ==
  <<op, input, wire, doc, raw, parsed, result, removed, changed, before, params>>

\* The state shared by callers.
callVars == <<registry, log>>

\* One validateBic call.
bicVars == <<bic, verdict>>

\* One generateIban call.
ibanVars == <<ibanInput, ibanResult>>

\* One execution of the node.
nodeVars == <<items, continueOnFail, itemIndex, returnData, run>>

sideVars == <<callVars, bicVars, ibanVars, nodeVars>>

vars == <<chainVars, sideVars>>

NoInput ==
  [messageType |-> "", senderBic |-> "", receiverBic |-> "", fields |-> NoFields]

NoWire == [threw |-> FALSE, error |-> "", text |-> ""]

NoDoc == Doc("", FALSE, <<>>, FALSE, "")

NoResult == [threw |-> FALSE, valid |-> FALSE, messageType |-> "",
             errors |-> <<>>, warnings |-> <<>>, parsedFields |-> <<>>]

NoParams ==
  [mtType |-> "", senderBic |-> "", receiverBic |-> "",
   transactionReference |-> "", currency |-> "",
   amount |-> ParsedNumber(FALSE, "0", ""), valueDate |-> "",
   orderingCustomer |-> "", beneficiaryCustomer |-> "", charges |-> "",
   accountNumber |-> "", statementNumber |-> "",
   openingBalance |-> ParsedNumber(FALSE, "0", ""),
   closingBalance |-> ParsedNumber(FALSE, "0", "")]

\* The parameters of the node's MT Generate operation: the type, the BICs
\* as typed, the reference and the value date given or left empty, amounts
\* as numbers, the charges option.
NodeParams ==
  { [NoParams EXCEPT
       !.mtType = t, !.senderBic = s, !.receiverBic = "CHASUS33XXX",
       !.transactionReference = ref, !.currency = "USD", !.amount = a,
       !.valueDate = d, !.orderingCustomer = "JOHN DOE",
       !.beneficiaryCustomer = "JANE SMITH", !.charges = c,
       !.accountNumber = "12345678", !.statementNumber = n,
       !.openingBalance = ParsedNumber(FALSE, "10", ""),
       !.closingBalance = ParsedNumber(FALSE, "15", "5")] :
     t \in {"MT103", "MT202", "MT940"}, s \in {"DEUTDEFF", "deut de ff"},
     ref \in {"", "REF1"}, a \in {ParsedNumber(FALSE, "100", ""),
                                  ParsedNumber(FALSE, "1000", "5")},
     d \in {"", "240101"}, c \in {"OUR", "SHA", "BEN"}, n \in {"", "2/1"} }

\* What generateReference({ type: 'message' }) may return: 16 characters
\* made of the time and of random digits.
GeneratedReferences == {"MHXK2A9FQ7Z1B3C0", "MHXK2B01ABCDEFGH"}

\* What formatSwiftDate(new Date()) may return.
Todays == {"261104", "270101"}

\* number.toFixed(2).replace('.', ',')
NodeAmount(n) == ReplaceFirst(toFixed2(n), ".", ",")

\* The fields object the node builds: its keys are field tags.
NodeFields(p, reference, today) ==
  LET payment   == p.mtType \in {"MT103", "MT202"}
      credit    == p.mtType = "MT103"
      statement == p.mtType \in {"MT940", "MT950"}
      keys == {"20"}
                \cup (IF payment THEN {"32A"} ELSE {})
                \cup (IF credit THEN {"23B", "50K", "59", "71A"} ELSE {})
                \cup (IF statement THEN {"25", "28C", "60F", "62F"} ELSE {})
  IN  [k \in keys |->
         CASE k = "20"  -> IF p.transactionReference = "" THEN reference
                           ELSE p.transactionReference
           [] k = "32A" -> (IF p.valueDate = "" THEN today ELSE p.valueDate)
                             \o p.currency \o NodeAmount(p.amount)
           [] k = "23B" -> "CRED"
           [] k = "50K" -> p.orderingCustomer
           [] k = "59"  -> p.beneficiaryCustomer
           [] k = "71A" -> IF p.charges = "" THEN "SHA" ELSE p.charges
           [] k = "25"  -> p.accountNumber
           [] k = "28C" -> IF p.statementNumber = "" THEN "1/1"
                           ELSE p.statementNumber
           [] k = "60F" -> "C" \o today \o "USD" \o NodeAmount(p.openingBalance)
           [] k = "62F" -> "C" \o today \o "USD" \o NodeAmount(p.closingBalance)]

\* What the generator reads from a fields object: fields.<name> for each
\* name it knows, undefined (here '') for a key the object does not hold.
ReadFields(obj) == [n \in FieldNames |-> IF n \in DOMAIN obj THEN obj[n] ELSE ""]

\* The messageInput the node hands to generateMtMessage.
NodeInput(p, reference, today) ==
  [messageType |-> p.mtType,
   senderBic   |-> normalizeBic(p.senderBic),
   receiverBic |-> normalizeBic(p.receiverBic),
   fields      |-> ReadFields(NodeFields(p, reference, today))]

\* The tables the calls read: MT_SPECS and the code tables.
Registry ==
  [specs |-> [key \in MT_SPEC_KEYS |-> MT_SPECS(key)],
   bankOperationCodes |-> BANK_OPERATION_CODES,
   chargeCodes |-> CHARGE_CODES,
   countryCodes |-> COUNTRY_CODES]

(***************************************************************************)
(* IBAN generation and validation (utils/ibanValidator.ts,                 *)
(* data/ibanCountries.ts).                                                 *)
(***************************************************************************)

\* One IbanCountrySpec: branchCodeLength 0 stands for an absent
\* branchCodeLength (both are falsy where generateIban reads it).
IbanSpecOf(ibanLength, bankCodeLength, branchCodeLength) ==
  [ibanLength |-> ibanLength, bankCodeLength |-> bankCodeLength,
   branchCodeLength |-> branchCodeLength]

\* The keys of IBAN_COUNTRY_SPECS.
IbanCountries ==
  {"DE", "FR", "GB", "ES", "IT", "NL", "BE", "AT", "CH", "PT", "IE",
   "LU", "SE", "NO", "DK", "FI", "PL", "CZ", "HU", "RO", "SK", "BG",
   "HR", "AE", "SA", "QA", "KW", "IL", "BR"}

\* IBAN_COUNTRY_SPECS[countryCode] for a key of the table.
IBAN_COUNTRY_SPECS(countryCode) ==
  CASE countryCode = "DE" -> IbanSpecOf(22, 8, 0)
    [] countryCode = "FR" -> IbanSpecOf(27, 5, 5)
    [] countryCode = "GB" -> IbanSpecOf(22, 4, 6)
    [] countryCode = "ES" -> IbanSpecOf(24, 4, 4)
    [] countryCode = "IT" -> IbanSpecOf(27, 5, 5)
    [] countryCode = "NL" -> IbanSpecOf(18, 4, 0)
    [] countryCode = "BE" -> IbanSpecOf(16, 3, 0)
    [] countryCode = "AT" -> IbanSpecOf(20, 5, 0)
    [] countryCode = "CH" -> IbanSpecOf(21, 5, 0)
    [] countryCode = "PT" -> IbanSpecOf(25, 4, 4)
    [] countryCode = "IE" -> IbanSpecOf(22, 4, 6)
    [] countryCode = "LU" -> IbanSpecOf(20, 3, 0)
    [] countryCode = "SE" -> IbanSpecOf(24, 3, 0)
    [] countryCode = "NO" -> IbanSpecOf(15, 4, 0)
    [] countryCode = "DK" -> IbanSpecOf(18, 4, 0)
    [] countryCode = "FI" -> IbanSpecOf(18, 3, 0)
    [] countryCode = "PL" -> IbanSpecOf(28, 8, 0)
    [] countryCode = "CZ" -> IbanSpecOf(24, 4, 0)
    [] countryCode = "HU" -> IbanSpecOf(28, 3, 4)
    [] countryCode = "RO" -> IbanSpecOf(24, 4, 0)
    [] countryCode = "SK" -> IbanSpecOf(24, 4, 0)
    [] countryCode = "BG" -> IbanSpecOf(22, 4, 4)
    [] countryCode = "HR" -> IbanSpecOf(21, 7, 0)
    [] countryCode = "AE" -> IbanSpecOf(23, 3, 0)
    [] countryCode = "SA" -> IbanSpecOf(24, 2, 0)
    [] countryCode = "QA" -> IbanSpecOf(29, 4, 0)
    [] countryCode = "KW" -> IbanSpecOf(30, 4, 0)
    [] countryCode = "IL" -> IbanSpecOf(23, 3, 3)
    [] countryCode = "BR" -> IbanSpecOf(29, 8, 5)

\* countryCode.toUpperCase() in IBAN_COUNTRY_SPECS
isCountrySupported(countryCode) ==
  HasTruthyEntry(IbanCountries, ToUpperCase(countryCode))

\* A local constant (const normalized = ..., let bban = ...): the value is
\* computed once and the body reads it.
ByValue(Body(_), argument) ==
  CHOOSE returned \in {Body(value) : value \in {argument}} : TRUE

\* iban.toUpperCase().replace(/[\s-]/g, '')
RECURSIVE StripSpacesAndHyphens(_)
StripSpacesAndHyphens(s) ==
  IF s = "" THEN ""
  ELSE IF Head(s) \in Whitespace \cup {"-"} THEN StripSpacesAndHyphens(Tail(s))
  ELSE Head(s) \o StripSpacesAndHyphens(Tail(s))

normalizeIban(iban) == ByValue(StripSpacesAndHyphens, ToUpperCase(iban))

\* Not-a-number, as a remainder no digit string has.
NaN == 0 - 1

\* The characters with letters A-Z replaced by 10..35 (char code - 55).
RECURSIVE LettersToNumbers(_)
LettersToNumbers(s) ==
  IF s = "" THEN ""
  ELSE (IF Head(s) \in Upper
        THEN ToString(LetterIndex(UpperLetters, Head(s), 1) + 9)
        ELSE Head(s))
         \o LettersToNumbers(Tail(s))

\* mod97(numStr) from a remainder on: parseInt of a character that is no
\* digit is NaN, and NaN stays NaN.
RECURSIVE Mod97From(_, _)
Mod97From(remainder, numStr) ==
  IF numStr = "" THEN remainder
  ELSE IF remainder = NaN \/ Head(numStr) \notin Digits THEN NaN
  ELSE Mod97From((remainder * 10 + DigitValue(Head(numStr))) % 97, Tail(numStr))

mod97(numStr) == ByValue(LAMBDA s : Mod97From(0, s), numStr)

\* validateIbanChecksum(iban)
validateIbanChecksum(iban) ==
  mod97(LettersToNumbers(SliceFrom(iban, 4) \o Slice(iban, 0, 4))) = 1

\* calculateIbanCheckDigits(countryCode, bban):
\* (98 - mod97(...)).toString().padStart(2, '0')
CheckDigitsOf(remainder) ==
  IF remainder = NaN THEN "NaN"
  ELSE IF 98 - remainder < 10 THEN "0" \o ToString(98 - remainder)
  ELSE ToString(98 - remainder)

calculateIbanCheckDigits(countryCode, bban) ==
  CheckDigitsOf(mod97(LettersToNumbers(bban \o countryCode \o "00")))

IbanResult(valid, iban, errors) ==
  [threw |-> FALSE, valid |-> valid, iban |-> iban, errors |-> errors]

\* A call that threw a TypeError: no result is returned.
IbanThrown == [threw |-> TRUE, valid |-> FALSE, iban |-> "", errors |-> <<>>]

\* /^[A-Z]{2}[0-9]{2}[A-Z0-9]+$/.test(normalized)
IbanCharacters(normalized) ==
  /\ Len(normalized) >= 5
  /\ AllIn(Slice(normalized, 0, 2), Upper)
  /\ AllIn(Slice(normalized, 2, 4), Digits)
  /\ AllIn(SliceFrom(normalized, 4), Upper \cup Digits)

\* The errors validateIban pushes once the country is found supported.
IbanErrors(normalized, countryCode, spec) ==
  (IF Len(normalized) # spec.ibanLength
   THEN <<"IBAN length for " \o countryCode \o " should be "
            \o ToString(spec.ibanLength) \o ", got "
            \o ToString(Len(normalized))>>
   ELSE <<>>)
  \o (IF ~IbanCharacters(normalized)
      THEN <<"IBAN contains invalid characters">> ELSE <<>>)
  \o (IF ~validateIbanChecksum(normalized)
      THEN <<"IBAN checksum is invalid">> ELSE <<>>)

\* validateIban, from the normalized form on.
ValidateNormalizedIban(iban, normalized) ==
  IF normalized = "" THEN IbanResult(FALSE, iban, <<"IBAN is required">>)
  ELSE IF Len(normalized) < 5
  THEN IbanResult(FALSE, iban, <<"IBAN is too short">>)
  ELSE IF ~isCountrySupported(Slice(normalized, 0, 2))
  THEN IbanResult(FALSE, iban,
         <<"Country code " \o Slice(normalized, 0, 2) \o " is not supported">>)
  ELSE IF Slice(normalized, 0, 2) \notin IbanCountries THEN IbanThrown
  ELSE IbanResult(
         Len(IbanErrors(normalized, Slice(normalized, 0, 2),
                        IBAN_COUNTRY_SPECS(Slice(normalized, 0, 2)))) = 0,
         iban,
         IbanErrors(normalized, Slice(normalized, 0, 2),
                    IBAN_COUNTRY_SPECS(Slice(normalized, 0, 2))))

\* validateIban(iban)
validateIban(iban) ==
  ByValue(LAMBDA given :
            ByValue(LAMBDA normalized : ValidateNormalizedIban(given, normalized),
                    normalizeIban(given)),
          iban)

\* accountNumber.padStart(n, '0')
RECURSIVE PadStartZero(_, _)
PadStartZero(s, n) == IF Len(s) >= n THEN s ELSE PadStartZero("0" \o s, n)

\* The BBAN generateIban builds: the parts joined, the account number
\* padded when the whole is too short.
BbanOf(in, bbanLength) ==
  IF Len(in.bankCode \o in.branchCode \o in.accountNumber) < bbanLength
  THEN in.bankCode \o in.branchCode
         \o PadStartZero(in.accountNumber,
                         bbanLength - Len(in.bankCode) - Len(in.branchCode))
  ELSE in.bankCode \o in.branchCode \o in.accountNumber

\* The errors generateIban pushes for the parts.
PartErrors(in, spec, bban) ==
  (IF Len(in.bankCode) # spec.bankCodeLength
   THEN <<"Bank code should be " \o ToString(spec.bankCodeLength)
            \o " characters for " \o in.countryCode>>
   ELSE <<>>)
  \o (IF spec.branchCodeLength = 0 THEN <<>>
      ELSE IF in.branchCode = ""
      THEN <<"Branch code is required for " \o in.countryCode>>
      ELSE IF Len(in.branchCode) # spec.branchCodeLength
      THEN <<"Branch code should be " \o ToString(spec.branchCodeLength)
               \o " characters for " \o in.countryCode>>
      ELSE <<>>)
  \o (IF Len(bban) # spec.ibanLength - 4
      THEN <<"BBAN length should be " \o ToString(spec.ibanLength - 4)
               \o ", got " \o ToString(Len(bban))>>
      ELSE <<>>)

\* generateIban once the specification is read.
GenerateWith(in, spec, bban) ==
  IF Len(PartErrors(in, spec, bban)) > 0
  THEN IbanResult(FALSE, "", PartErrors(in, spec, bban))
  ELSE validateIban(in.countryCode
                      \o calculateIbanCheckDigits(in.countryCode, bban) \o bban)

\* generateIban(input); an absent branchCode is ''.  The table is read
\* with the country code as given: where that is no key of the table,
\* spec is undefined and spec.bankCodeLength throws.
generateIban(in) ==
  IF ~isCountrySupported(in.countryCode)
  THEN IbanResult(FALSE, "",
         <<"Country code " \o in.countryCode \o " is not supported">>)
  ELSE IF in.countryCode \notin IbanCountries THEN IbanThrown
  ELSE ByValue(LAMBDA bban :
                 GenerateWith(in, IBAN_COUNTRY_SPECS(in.countryCode), bban),
               BbanOf(in, IBAN_COUNTRY_SPECS(in.countryCode).ibanLength - 4))

NoIbanInput ==
  [countryCode |-> "", bankCode |-> "", branchCode |-> "", accountNumber |-> ""]

NoIbanResult == [threw |-> FALSE, valid |-> FALSE, iban |-> "", errors |-> <<>>]

NoRun == [status |-> "idle", output |-> <<>>, itemIndex |-> -1]

NoVerdict ==
  [valid |-> FALSE, bic |-> "", normalized |-> "",
   components |-> [institutionCode |-> "", countryCode |-> "",
                   locationCode |-> "", branchCode |-> ""],
   errors |-> <<>>]

Init ==
  /\ registry = Registry
  /\ log = <<>>
  /\ bic = ""
  /\ verdict = NoVerdict
  /\ ibanInput = NoIbanInput
  /\ ibanResult = NoIbanResult
  /\ items = <<>>
  /\ continueOnFail = FALSE
  /\ itemIndex = 0
  /\ returnData = <<>>
  /\ run = NoRun
  /\ op = "init"
  /\ input = NoInput
  /\ wire = NoWire
  /\ doc = NoDoc
  /\ raw = ""
  /\ parsed = EmptyRecord
  /\ result = NoResult
  /\ removed = ""
  /\ changed = ""
  /\ before = NoResult
  /\ params = NoParams

\* generateMtMessage(in)
Generate(in) ==
  /\ op = "init"
  /\ op' = "generate"
  /\ input' = in
  /\ wire' = generateMtMessage(in)
  /\ UNCHANGED <<doc, raw, parsed, result, removed, changed, before, params>>
  /\ UNCHANGED sideVars

\* The node's MT Generate operation: generateMtMessage on the input built
\* from the node parameters.
NodeGenerate(p, reference, today) ==
  /\ op = "init"
  /\ op' = "generate"
  /\ params' = p
  /\ input' = NodeInput(p, reference, today)
  /\ wire' = generateMtMessage(input')
  /\ UNCHANGED <<doc, raw, parsed, result, removed, changed, before>>
  /\ UNCHANGED sideVars

\* parseMtMessage on the text the generator returned.
DecodeGenerated ==
  /\ op = "generate"
  /\ ~wire.threw
  /\ op' = "decode"
  /\ raw' = wire.text
  /\ parsed' = parseMtMessage(wire.text)
  /\ UNCHANGED <<input, wire, doc, result, removed, changed, before, params>>
  /\ UNCHANGED sideVars

\* parseMtMessage on a hand-written message.
Decode(d) ==
  /\ op = "init"
  /\ op' = "decode"
  /\ doc' = d
  /\ raw' = Render(d)
  /\ parsed' = parseMtMessage(Render(d))
  /\ UNCHANGED <<input, wire, result, removed, changed, before, params>>
  /\ UNCHANGED sideVars

\* parseMtMessage on a raw text.
DecodeText(text) ==
  /\ op = "init"
  /\ op' = "decode"
  /\ raw' = text
  /\ parsed' = parseMtMessage(text)
  /\ UNCHANGED <<input, wire, doc, result, removed, changed, before, params>>
  /\ UNCHANGED sideVars

\* validateMtMessage on the record decoded last.
Validate ==
  /\ op = "decode"
  /\ op' = "validate"
  /\ result' = validateMtMessage(parsed)
  /\ UNCHANGED <<input, wire, doc, raw, parsed, removed, changed, before, params>>
  /\ UNCHANGED sideVars

\* validateMtMessage on a record the caller built.
ValidateRecord(rec) ==
  /\ op = "init"
  /\ op' = "validate"
  /\ parsed' = rec
  /\ result' = validateMtMessage(rec)
  /\ UNCHANGED <<input, wire, doc, raw, removed, changed, before, params>>
  /\ UNCHANGED sideVars

\* The caller deletes one mandatory tag from a record found valid and
\* validates it again.
RemoveTag(tag) ==
  /\ op = "validate"
  /\ ~result.threw
  /\ result.valid
  /\ ObjHas(parsed.textBlock, tag)
  /\ op' = "revalidate"
  /\ removed' = tag
  /\ parsed' = [parsed EXCEPT !.textBlock = ObjDelete(parsed.textBlock, tag)]
  /\ result' = validateMtMessage(parsed')
  /\ UNCHANGED <<input, wire, doc, raw, changed, before, params>>
  /\ UNCHANGED sideVars

\* The specification validateMtMessage resolves for a record.
SpecOf(rec) == MT_SPECS("MT" \o ReplaceFirst(rec.messageType, "MT", ""))

\* The fields added to a message: tags no specification lists, and tags
\* that some specifications list and others do not.
AddedFields ==
  {Fld("99Z", <<"X">>), Fld("99Z", <<"">>), Fld("98", <<"A", "B">>),
   Fld("21", <<"REL1">>), Fld("65", <<"NOT A BALANCE">>),
   Fld("70", <<"INVOICE 1">>)}

\* A field whose tag the record's specification does not list is added in
\* front of or behind the fields of a message found valid, and the message
\* is decoded and validated again.
AddField(fld, inFront) ==
  /\ op = "validate"
  /\ doc # NoDoc
  /\ ~result.threw
  /\ result.valid
  /\ \A i \in 1..Len(doc.fields) : doc.fields[i].tag # fld.tag
  /\ ~SpecHasTag(SpecOf(parsed), fld.tag)
  /\ op' = "extend"
  /\ changed' = fld.tag
  /\ before' = result
  /\ doc' = [doc EXCEPT !.fields = IF inFront THEN <<fld>> \o doc.fields
                                   ELSE Append(doc.fields, fld)]
  /\ raw' = Render(doc')
  /\ parsed' = parseMtMessage(raw')
  /\ result' = validateMtMessage(parsed')
  /\ UNCHANGED <<input, wire, removed, params>>
  /\ UNCHANGED sideVars

\* The values put in place of a well-formed balance: malformed one- and
\* two-line values, a sequence whose first line is empty, an empty value
\* and an empty sequence.
MalformedBalances ==
  {Scalar("C24USD10"), Scalar("X240101USD10,00"), Scalar("C240101usd10,00"),
   Arr(<<"NOT A BALANCE", "C240101USD10,00">>), Arr(<<"", "C240101USD10,00">>),
   Scalar(""), Arr(<<>>)}

\* The value of the tag is a balance of the expected shape.
WellFormedBalance(fields, tag) ==
  /\ Truthy(fields, tag)
  /\ ~FirstIsUndefined(ObjGet(fields, tag))
  /\ BalanceShape(StripWhitespace(FirstLine(ObjGet(fields, tag))))

\* The caller replaces the well-formed value of a balance field of a
\* statement record by a malformed one and validates the record again.
ReplaceBalance(tag, value) ==
  /\ op = "validate"
  /\ ~result.threw
  /\ parsed.messageType \in {"MT940", "MT950"}
  /\ WellFormedBalance(parsed.textBlock, tag)
  /\ op' = "replace"
  /\ changed' = tag
  /\ before' = result
  /\ parsed' = [parsed EXCEPT !.textBlock = ObjSet(parsed.textBlock, tag, value)]
  /\ result' = validateMtMessage(parsed')
  /\ UNCHANGED <<input, wire, doc, raw, removed, params>>
  /\ UNCHANGED sideVars

\* The tags the caller may delete: the mandatory tags of MT103.
RemovableTags == {"20", "23B", "32A", "59", "71A"}

Next ==
  \/ \E in \in GenInputs : Generate(in)
  \/ \E p \in NodeParams, reference \in GeneratedReferences, today \in Todays :
       NodeGenerate(p, reference, today)
  \/ DecodeGenerated
  \/ \E d \in Docs : Decode(d)
  \/ \E text \in RawTexts : DecodeText(text)
  \/ Validate
  \/ \E rec \in BuiltRecords : ValidateRecord(rec)
  \/ \E tag \in RemovableTags : RemoveTag(tag)
  \/ \E fld \in AddedFields, inFront \in BOOLEAN : AddField(fld, inFront)
  \/ \E i \in 1..Len(balanceFields), value \in MalformedBalances :
       ReplaceBalance(balanceFields[i], value)

Spec == Init /\ [][Next]_vars

(***************************************************************************)
(* Callers sharing the registry.  A call runs to completion once started   *)
(* (the functions are synchronous), so calls of different callers          *)
(* interleave call by call, in any order.                                  *)
(***************************************************************************)

\* The number of calls followed.
MaxCalls == 3

\* The inputs callers generate from.
CallInputs ==
  {[messageType |-> "MT103", senderBic |-> "DEUTDEFF",
    receiverBic |-> "CHASUS33XXX", fields |-> Full103],
   [messageType |-> "MT940", senderBic |-> "DEUTDEFF",
    receiverBic |-> "CHASUS33XXX", fields |-> FullStatement(2)]}

\* The raw texts callers decode: a generated statement, a hand-written
\* message of an unregistered type, a credit transfer without beneficiary.
CallTexts ==
  { generateMtMessage(in).text : in \in { c \in CallInputs : c.messageType = "MT940" } }
    \cup {Render(Doc(OutputHeader("999"), TRUE,
                     <<Fld("20", <<"REF1">>), Fld("99Z", <<"X">>)>>,
                     TRUE, "\r\n")),
          Render(Doc(OutputHeader("103"), TRUE,
                     Pick(CreditFields, {"20", "23B", "32A", "71A"}),
                     TRUE, "\r\n"))}

\* The records callers validate.
CallRecords == { parseMtMessage(text) : text \in CallTexts }

\* validateMtMessage(parsed) against the registry as it now is:
\* MT_SPECS[`MT${messageType}`] is read from the shared table.
validateMtMessageOn(reg, rec) ==
  LET messageType == ReplaceFirst(rec.messageType, "MT", "")
  IN  IF "MT" \o messageType \notin DOMAIN reg.specs
      THEN [threw |-> FALSE, valid |-> FALSE, messageType |-> rec.messageType,
            errors |-> <<[field |-> "messageType", code |-> "UNKNOWN_TYPE",
                          message |-> "Unknown message type: "
                                        \o rec.messageType,
                          value |-> rec.messageType]>>,
            warnings |-> <<>>, parsedFields |-> rec.textBlock]
      ELSE ValidateAgainst(rec, reg.specs["MT" \o messageType],
                           SpecificValidations(messageType, rec.textBlock))

\* A call that consumes the field lists it walks.
RegistryConsumed(reg) ==
  [reg EXCEPT !.specs = [key \in DOMAIN reg.specs |-> <<>>]]

\* The registry after a call: decoding does not touch it, validation and
\* generation only read it (find, includes, a property lookup).
RegistryAfter(reg) == reg

Ran(call, arg, value) == [call |-> call, arg |-> arg, value |-> value]

\* Some caller runs parseMtMessage(text).
CallDecode(text) ==
  /\ Len(log) < MaxCalls
  /\ log' = Append(log, Ran("decode", text, parseMtMessage(text)))
  /\ registry' = RegistryAfter(registry)
  /\ UNCHANGED <<chainVars, bicVars, ibanVars, nodeVars>>

\* Some caller runs validateMtMessage(rec).
CallValidate(rec) ==
  /\ Len(log) < MaxCalls
  /\ log' = Append(log, Ran("validate", rec, validateMtMessageOn(registry, rec)))
  /\ registry' = RegistryAfter(registry)
  /\ UNCHANGED <<chainVars, bicVars, ibanVars, nodeVars>>

\* Some caller runs generateMtMessage(in).
CallGenerate(in) ==
  /\ Len(log) < MaxCalls
  /\ log' = Append(log, Ran("generate", in, generateMtMessage(in)))
  /\ registry' = RegistryAfter(registry)
  /\ UNCHANGED <<chainVars, bicVars, ibanVars, nodeVars>>

CallsNext ==
  \/ \E text \in CallTexts : CallDecode(text)
  \/ \E rec \in CallRecords : CallValidate(rec)
  \/ \E in \in CallInputs : CallGenerate(in)

CallsSpec == Init /\ [][CallsNext]_vars

(***************************************************************************)
(* validateBic on its own.                                                 *)
(***************************************************************************)

\* The strings handed to validateBic: an institution, a country, a
\* location and a branch part, each well-formed or not, in either letter
\* case and with or without spaces; the empty and the blank string.
BicInputs ==
  { inst \o country \o loc \o branch :
      inst \in {"DEUT", "deut", "DE UT", "DEU1", "DEU"},
      country \in {"DE", "de", "XX", "D1"},
      loc \in {"FF", "0F", "1F", "F0", "f f", "F-"},
      branch \in {"", "500", "xxx", "50", "5 0 0"} }
    \cup {"", "  "}

\* validateBic(b)
CheckBic(b) ==
  /\ verdict = NoVerdict
  /\ bic' = b
  /\ verdict' = validateBic(b)
  /\ UNCHANGED <<chainVars, callVars, ibanVars, nodeVars>>

BicNext == \E b \in BicInputs : CheckBic(b)

BicSpec == Init /\ [][BicNext]_vars

(***************************************************************************)
(* generateIban on its own.                                                *)
(***************************************************************************)

\* The inputs handed to generateIban: supported country codes in either
\* letter case, unsupported ones, and parts of the registered length or
\* not, made of digits and capital letters or not.
IbanInputs ==
  { [countryCode |-> c, bankCode |-> b, branchCode |-> br, accountNumber |-> a] :
      c \in {"DE", "de", "De", "GB", "gb", "FR", "XX", "xx", ""},
      b \in {"37040044", "3704004", "370400 4", "NWBK", "nwbk", "20041"},
      br \in {"", "601613", "60161", "01005"},
      a \in {"0532013000", "532013000", "05320130001", "053201300a",
             "31926819", "0500013M026"} }

\* generateIban(in)
GenerateIban(in) ==
  /\ ibanInput = NoIbanInput
  /\ ibanInput' = in
  /\ ibanResult' = generateIban(in)
  /\ UNCHANGED <<chainVars, callVars, bicVars, nodeVars>>

IbanNext == \E in \in IbanInputs : GenerateIban(in)

IbanSpec == Init /\ [][IbanNext]_vars

(***************************************************************************)
(* The node's execute method (Swift.node.ts), for the IBAN Generate        *)
(* operation: the parameters of item i are the parts handed to             *)
(* generateIban.                                                           *)
(***************************************************************************)

\* The number of input items followed.
MaxItems == 3

\* The parameters of one item: parts that generate an IBAN, a country
\* code that is rejected (a result, no exception), a country code that
\* makes generateIban throw.
ItemParameters ==
  { [countryCode |-> c, bankCode |-> "37040044", branchCode |-> "",
     accountNumber |-> "0532013000"] : c \in {"DE", "XX", "de"} }

\* The input items an execution may be given.
RECURSIVE ItemsUpTo(_)
ItemsUpTo(n) ==
  IF n = 0 THEN {<<>>}
  ELSE ItemsUpTo(n - 1)
         \cup { Append(its, p) : its \in { s \in ItemsUpTo(n - 1) : Len(s) = n - 1 },
                                 p \in ItemParameters }

\* error.message of the TypeError generateIban throws.
TypeErrorMessage == "Cannot read properties of undefined (reading 'bankCodeLength')"

\* returnData.push({ json: result, pairedItem: { item: i } })
ResultEntry(json, item) == [json |-> json, pairedItem |-> item]

\* The entry pushed in the catch clause under continue-on-fail.
ErrorEntry(message, item) == [json |-> [error |-> message], pairedItem |-> item]

\* execute is called: the items are read, the loop starts at i = 0.
Execute(its, cof) ==
  /\ run.status = "idle"
  /\ items' = its
  /\ continueOnFail' = cof
  /\ itemIndex' = 0
  /\ returnData' = <<>>
  /\ run' = [run EXCEPT !.status = "running"]
  /\ UNCHANGED <<chainVars, callVars, bicVars, ibanVars>>

\* A faulty variant of ProcessItem that leaves the loop after the first
\* failure under continue-on-fail.
ProcessItemBreaking ==
  /\ run.status = "running"
  /\ itemIndex < Len(items)
  /\ \/ /\ ~generateIban(items[itemIndex + 1]).threw
        /\ returnData' = Append(returnData,
                                ResultEntry(generateIban(items[itemIndex + 1]),
                                            itemIndex))
        /\ itemIndex' = itemIndex + 1
        /\ run' = run
     \/ /\ generateIban(items[itemIndex + 1]).threw
        /\ continueOnFail
        /\ returnData' = Append(returnData,
                                ErrorEntry(TypeErrorMessage, itemIndex))
        /\ itemIndex' = Len(items)
        /\ run' = run
     \/ /\ generateIban(items[itemIndex + 1]).threw
        /\ ~continueOnFail
        /\ run' = [status |-> "aborted", output |-> <<>>,
                   itemIndex |-> itemIndex]
        /\ returnData' = returnData
        /\ itemIndex' = itemIndex
  /\ UNCHANGED <<items, continueOnFail>>
  /\ UNCHANGED <<chainVars, callVars, bicVars, ibanVars>>

\* One iteration of the for loop: the operation on item i, the push of its
\* result, or the catch clause: the push of the error entry and continue,
\* or the throw of a NodeOperationError with itemIndex i.
ProcessItem ==
  /\ run.status = "running"
  /\ itemIndex < Len(items)
  /\ \/ /\ ~generateIban(items[itemIndex + 1]).threw
        /\ returnData' = Append(returnData,
                                ResultEntry(generateIban(items[itemIndex + 1]),
                                            itemIndex))
        /\ itemIndex' = itemIndex + 1
        /\ run' = run
     \/ /\ generateIban(items[itemIndex + 1]).threw
        /\ continueOnFail
        /\ returnData' = Append(returnData,
                                ErrorEntry(TypeErrorMessage, itemIndex))
        /\ itemIndex' = itemIndex + 1
        /\ run' = run
     \/ /\ generateIban(items[itemIndex + 1]).threw
        /\ ~continueOnFail
        /\ run' = [status |-> "aborted", output |-> <<>>,
                   itemIndex |-> itemIndex]
        /\ returnData' = returnData
        /\ itemIndex' = itemIndex
  /\ UNCHANGED <<items, continueOnFail>>
  /\ UNCHANGED <<chainVars, callVars, bicVars, ibanVars>>

\* The loop is over: return [returnData].
Return ==
  /\ run.status = "running"
  /\ itemIndex = Len(items)
  /\ run' = [status |-> "returned", output |-> returnData, itemIndex |-> -1]
  /\ UNCHANGED <<items, continueOnFail, itemIndex, returnData>>
  /\ UNCHANGED <<chainVars, callVars, bicVars, ibanVars>>

ExecuteNext ==
  \/ \E its \in ItemsUpTo(MaxItems), cof \in BOOLEAN : Execute(its, cof)
  \/ ProcessItem
  \/ Return

\* The loop body and the return are not suspended: execute awaits nothing.
ExecuteSpec ==
  Init /\ [][ExecuteNext]_vars /\ WF_vars(ProcessItem) /\ WF_vars(Return)

(***************************************************************************)
(* Properties of the codec.                                                *)
(***************************************************************************)

\* The state was reached by generating a message (and decoding and
\* validating what the generator returned).
Generated == input # NoInput

\* The input names one of the four registered types.
RegisteredInput(in) == "MT" \o TypeDigits(in.messageType) \in MT_SPEC_KEYS

\* The input's fields are a mandatory-only or a fully-populated well-formed
\* field set of its type.
WellFormedInput(in) ==
  RegisteredInput(in) /\ in.fields \in WellFormedFields(TypeDigits(in.messageType))

\* Both BICs of the input pass validateBic.
ValidBics(in) ==
  validateBic(in.senderBic).valid /\ validateBic(in.receiverBic).valid

\* The errors of the result whose code is `code`.
ErrorsWithCode(res, code) == SelectSeq(res.errors, LAMBDA e : e.code = code)

\* The lines of field 70 of a hand-written multi-line message.
Lines70 == doc.fields[2].lines

\* C1: for each registered type and each well-formed field set (mandatory
\* only, fully populated) with valid BICs, generateMtMessage returns a text,
\* and decoding and validating that text yields valid = true.
RoundTripValid ==
  Generated /\ WellFormedInput(input) /\ ValidBics(input) =>
    /\ op = "generate" => ~wire.threw /\ wire.text # ""
    /\ op = "validate" => ~result.threw /\ result.valid /\ result.errors = <<>>

\* A fully-populated MT103 input has been generated, decoded and validated.
RoundTripReached ==
  /\ op = "validate"
  /\ Generated
  /\ input.messageType = "MT103"
  /\ input.fields = Full103
  /\ ValidBics(input)
  /\ result.valid

\* C2 (as claimed): whenever generateMtMessage returns a text for a
\* registered type, the text carries every field the type's specification
\* mandates; an input lacking a mandatory value therefore makes it throw.
EmitsEveryMandatedField ==
  op = "generate" /\ RegisteredInput(input) /\ ~wire.threw =>
    LET spec == MT_SPECS("MT" \o TypeDigits(input.messageType))
    IN  \A i \in 1..Len(spec) :
          spec[i].mandatory =>
            IndexOfFrom(wire.text, "\r\n:" \o spec[i].tag \o ":", 0) >= 0

\* C3: generateMtMessage throws, returning no text, whenever the sender or
\* the receiver BIC fails validateBic; the failure names the sender when the
\* sender is invalid (the receiver being valid or not), else the receiver.
InvalidBicFails ==
  op = "generate" /\ ~ValidBics(input) =>
    /\ wire.threw
    /\ wire.text = ""
    /\ wire.error =
         IF ~validateBic(input.senderBic).valid
         THEN "Invalid sender BIC: "
                \o Join(validateBic(input.senderBic).errors, ", ")
         ELSE "Invalid receiver BIC: "
                \o Join(validateBic(input.receiverBic).errors, ", ")

\* An input whose BICs are both invalid has been rejected.
BothBicsInvalidReached ==
  /\ op = "generate"
  /\ ~validateBic(input.senderBic).valid
  /\ ~validateBic(input.receiverBic).valid
  /\ wire.threw

\* C4 (as claimed): generating an MT103 with a supplied bank operation code
\* outside BANK_OPERATION_CODES or a supplied charge code outside
\* CHARGE_CODES throws, and a text that is returned carries a 23B and a 71A
\* whose values are members of those sets.
CodesAreMembers ==
  op = "generate" /\ TypeDigits(input.messageType) = "103" =>
    /\ \/ /\ input.fields.bankOperationCode # ""
          /\ input.fields.bankOperationCode \notin BANK_OPERATION_CODES
       \/ /\ input.fields.charges # ""
          /\ input.fields.charges \notin CHARGE_CODES
       => wire.threw /\ wire.text = ""
    /\ ~wire.threw =>
         /\ \E c \in BANK_OPERATION_CODES :
               IndexOfFrom(wire.text, "\r\n:23B:" \o c \o "\r\n", 0) >= 0
         /\ \E c \in CHARGE_CODES :
               IndexOfFrom(wire.text, "\r\n:71A:" \o c \o "\r\n", 0) >= 0

\* C5 (as claimed): an MT103 record with well-formed 20, 23B, 32A and 71A
\* gets the missing-beneficiary error exactly when none of 59, 59A and 59F
\* is present; with any one of them it has no MISSING_FIELD error and is
\* valid.
AnyBeneficiaryEncodingSuffices ==
  op = "validate" /\ doc \in CreditDocs =>
    /\ ~result.threw
    /\ IF \E tag \in {"59", "59A", "59F"} : ObjHas(parsed.textBlock, tag)
       THEN result.valid /\ ErrorsWithCode(result, "MISSING_FIELD") = <<>>
       ELSE ~result.valid /\ ErrorsWithCode(result, "MISSING_FIELD") # <<>>

\* C6 (as claimed): an MT940 or MT950 record with well-formed 20, 25 and
\* 28C is valid, without a MISSING_FIELD error, when it holds an opening
\* balance (60F or 60M) and a closing balance (62F or 62M), and invalid
\* when it lacks both variants of either balance.
EitherBalanceVariantSuffices ==
  op = "validate" /\ doc \in StatementDocs =>
    /\ ~result.threw
    /\ IF /\ \E tag \in {"60F", "60M"} : ObjHas(parsed.textBlock, tag)
          /\ \E tag \in {"62F", "62M"} : ObjHas(parsed.textBlock, tag)
       THEN result.valid /\ ErrorsWithCode(result, "MISSING_FIELD") = <<>>
       ELSE ~result.valid

\* The error the mandatory loop pushes for a tag of MT103.
MandatoryError(tag) ==
  [field |-> tag, code |-> "MISSING_FIELD",
   message |-> "Mandatory field " \o tag \o " ("
                 \o SpecFind(MT103_SPEC, tag).name \o ") is missing"]

\* The error validateMt103Specifics pushes when no beneficiary is present.
BeneficiaryError ==
  [field |-> "59", code |-> "MISSING_FIELD",
   message |-> "Beneficiary customer (field 59, 59A, or 59F) is required"]

\* C7: after one of the mandatory tags 20, 23B, 32A, 59, 71A is removed from
\* a valid MT103 record, validateMtMessage returns valid = false with
\* exactly one error of the mandatory check, for that tag, plus the
\* beneficiary one-of error exactly when no beneficiary encoding is left;
\* there is no other error.
RemovedTagIsTheOnlyError ==
  op = "revalidate" /\ parsed.messageType = "MT103" =>
    /\ ~result.threw
    /\ ~result.valid
    /\ IF \E tag \in {"59", "59A", "59F"} : ObjHas(parsed.textBlock, tag)
       THEN result.errors = <<MandatoryError(removed)>>
       ELSE /\ removed = "59"
            /\ Len(result.errors) = 2
            /\ { result.errors[i] : i \in 1..2 }
                 = {MandatoryError("59"), BeneficiaryError}

\* Field 59 has been removed from a valid MT103 record that also holds 59A.
RemovedOneOfTwoBeneficiaries ==
  /\ op = "revalidate"
  /\ parsed.messageType = "MT103"
  /\ removed = "59"
  /\ ObjHas(parsed.textBlock, "59A")
  /\ ~result.valid

ValidateNeverRaises == op \in {"validate", "revalidate"} => ~result.threw

\* C10 (as claimed): a field whose value spans k >= 2 physical lines decodes
\* to the sequence of exactly those k lines, whatever the lines contain.
EveryLineKept ==
  op = "decode" /\ doc \in MultiLineDocs /\ Len(Lines70) >= 2 =>
    /\ ObjHas(parsed.textBlock, "70")
    /\ ObjGet(parsed.textBlock, "70") = Arr(Lines70)

\* The lines of field 70 are decoded as they are: the text after the tag is
\* not empty, no later line is a single dash, and the value does not end in
\* an empty line at the very end of a block without terminator line.
LinesDecodable ==
  /\ Lines70[1] # ""
  /\ \A i \in 2..Len(Lines70) : Lines70[i] # "-"
  /\ \/ doc.terminator
     \/ Len(doc.fields) > 2
     \/ Lines70[Len(Lines70)] # ""

\* C10 (amended): a field whose value spans k >= 2 physical lines decodes to
\* the sequence of exactly those k lines, and joining it with line breaks
\* reproduces the value, provided the text after the tag is not empty, no
\* line after the first is a single dash and the value does not end in an
\* empty line at the end of a block that has no terminator line.
DecodableLinesKept ==
  op = "decode" /\ doc \in MultiLineDocs /\ Len(Lines70) >= 2 /\ LinesDecodable =>
    /\ ObjHas(parsed.textBlock, "70")
    /\ ObjGet(parsed.textBlock, "70") = Arr(Lines70)
    /\ JoinedValue(ObjGet(parsed.textBlock, "70")) = Join(Lines70, "\n")

\* A three-line field 70 with an empty middle line has been decoded.
ThreeLinesDecoded ==
  /\ op = "decode"
  /\ doc \in MultiLineDocs
  /\ Len(Lines70) = 3
  /\ Lines70[2] = ""
  /\ LinesDecodable
  /\ ObjHas(parsed.textBlock, "70")
  /\ Len(ObjGet(parsed.textBlock, "70").v) = 3

\* The tags the four specifications list.
SpecTags ==
  UNION { { MT_SPECS(k)[i].tag : i \in 1..Len(MT_SPECS(k)) } : k \in MT_SPEC_KEYS }

\* The text holds pat at index i and again after it.
AgainAfter(text, pat, i) == i >= 0 /\ IndexOfFrom(text, pat, i + 1) >= 0

\* The text holds two lines that start with the tag.
TagLineTwice(text, tag) ==
  AgainAfter(text, "\r\n:" \o tag \o ":",
             IndexOfFrom(text, "\r\n:" \o tag \o ":", 0))

\* C11 (as claimed): in every text generateMtMessage returns, each field tag
\* starts at most one line of the text block, whatever the type and the
\* fields are (several '|'-separated statement lines included).
EachTagAtMostOnce ==
  op = "generate" /\ ~wire.threw =>
    \A tag \in SpecTags : ~TagLineTwice(wire.text, tag)

\* The tags of the fields of the hand-written message, in order of
\* appearance.
DocTags == [i \in 1..Len(doc.fields) |-> doc.fields[i].tag]

\* The field names of a sequence of errors or warnings.
FieldsOf(reports) == [i \in 1..Len(reports) |-> reports[i].field]

\* The UNKNOWN_FIELD warnings of the result.
UnknownFieldWarnings(res) ==
  SelectSeq(res.warnings, LAMBDA w : w.code = "UNKNOWN_FIELD")

\* The decoded value of the tag exceeds the maximum length MT103 declares.
TooLongFor103(tag) ==
  /\ SpecHasTag(MT103_SPEC, tag)
  /\ SpecFind(MT103_SPEC, tag).maxLength # 0
  /\ Len(JoinedValue(ObjGet(parsed.textBlock, tag)))
       > SpecFind(MT103_SPEC, tag).maxLength

\* C12 (as claimed): the errors of the mandatory check come first, in
\* declaration order; the FIELD_TOO_LONG errors and the UNKNOWN_FIELD
\* warnings follow in the order the fields appear in the text block,
\* whether their tags are purely numeric or lettered.
ResultsInAppearanceOrder ==
  op = "validate" /\ doc \in OrderDocs =>
    /\ ~result.threw
    /\ SubSeq(result.errors, 1,
              Len(MandatoryErrors(MT103_SPEC, 1, parsed.textBlock)))
         = MandatoryErrors(MT103_SPEC, 1, parsed.textBlock)
    /\ FieldsOf(ErrorsWithCode(result, "FIELD_TOO_LONG"))
         = SelectSeq(DocTags, TooLongFor103)
    /\ FieldsOf(UnknownFieldWarnings(result))
         = SelectSeq(DocTags, LAMBDA t : ~SpecHasTag(MT103_SPEC, t))

\* The text holds no brace.
NoBraces(text) ==
  IndexOfFrom(text, "{", 0) = -1 /\ IndexOfFrom(text, "}", 0) = -1

\* C13 (as claimed): for a text whose block delimiters are unbalanced,
\* extractBlocks yields no block, and the decoded record has empty headers,
\* an empty message type and an empty field mapping.
UnbalancedYieldsNoBlock ==
  op = "decode" /\ raw \in UnbalancedTexts =>
    /\ \A n \in 0..9 : ~extractBlocks(Trim(raw))[n].present
    /\ parsed = [EmptyRecord EXCEPT !.rawMessage = Trim(raw)]

\* C14: for a text without any brace, the decoded field mapping is the
\* tokenization of the whole trimmed text, and nothing else is decoded:
\* default headers, empty message type, no user header, no trailers.
BareTextIsBlock4 ==
  op = "decode" /\ NoBraces(raw) =>
    /\ parsed = [EmptyRecord EXCEPT !.textBlock = parseTextBlock(Trim(raw)),
                                    !.rawMessage = Trim(raw)]
    /\ \A n \in 0..9 : extractBlocks(Trim(raw))[n].present <=> n = 4

\* A bare body with white space around it has been decoded into fields.
BareBodyDecoded ==
  /\ op = "decode"
  /\ NoBraces(raw)
  /\ raw # Trim(raw)
  /\ ObjHas(parsed.textBlock, "20")
  /\ ObjGet(parsed.textBlock, "70") = Arr(<<"A", "B">>)

\* C15 (as claimed): a block whose payload nests balanced braces to any
\* depth is extracted whole, up to its own closing brace, and the blocks
\* extracted are numbered 1 to 5.
NestedPayloadExtracted ==
  op = "decode" /\ raw \in RawTexts =>
    /\ \A p \in Payloads :
         raw = Nested(p) =>
           extractBlocks(Trim(raw))[3] = [present |-> TRUE, content |-> p]
    /\ \A n \in 0..9 : extractBlocks(Trim(raw))[n].present => n \in 1..5

\* C16 (as claimed): whenever block 2 is not empty, the decoded message
\* type, in the application header and at the top of the record, is "MT"
\* followed by characters 2 to 4 of the block, whichever character the
\* block starts with.
TypeReadFromAnyBlock2 ==
  op = "decode" /\ doc.wrapped /\ doc.header # "" =>
    /\ parsed.applicationHeader.messageType = "MT" \o Slice(doc.header, 1, 4)
    /\ parsed.messageType = "MT" \o Slice(doc.header, 1, 4)

\* C16 (amended): when block 2 starts with "I" or "O", the decoded message
\* type, in the application header and at the top of the record, is "MT"
\* followed by characters 2 to 4 of the block; when it starts with any
\* other character, both are empty.
TypeReadFromDirectedBlock2 ==
  op = "decode" /\ doc.wrapped /\ doc.header # "" =>
    /\ parsed.applicationHeader.messageType = parsed.messageType
    /\ parsed.applicationHeader.inputOutput = CharAt(doc.header, 0)
    /\ parsed.messageType =
         IF CharAt(doc.header, 0) \in {"I", "O"}
         THEN "MT" \o Slice(doc.header, 1, 4)
         ELSE ""

\* An input message's block 2 has been decoded to its type.
InputBlock2Decoded ==
  /\ op = "decode"
  /\ doc.wrapped
  /\ doc.header = InputHeader("950")
  /\ parsed.messageType = "MT950"
  /\ parsed.applicationHeader.inputOutput = "I"

\* C17: after a field whose tag the type's specification does not list is
\* added to a valid message of a registered type, the message is still
\* valid, with no error and exactly one UNKNOWN_FIELD warning for that
\* tag; the UNKNOWN_FIELD warnings for other tags are the ones it had.
UnknownFieldOnlyWarns ==
  op = "extend" =>
    /\ ~result.threw
    /\ result.valid
    /\ result.errors = <<>>
    /\ Len(SelectSeq(UnknownFieldWarnings(result),
                     LAMBDA w : w.field = changed)) = 1
    /\ SelectSeq(UnknownFieldWarnings(result), LAMBDA w : w.field # changed)
         = UnknownFieldWarnings(before)

\* Tag 98 has been added to a valid MT103 message that had one warning.
UnknownFieldAdded ==
  /\ op = "extend"
  /\ changed = "98"
  /\ parsed.messageType = "MT103"
  /\ Len(before.warnings) = 1
  /\ Len(result.warnings) = 2
  /\ result.valid

\* The number of characters of lines joined by one separator character
\* each.
RECURSIVE JoinedLength(_)
JoinedLength(lines) ==
  IF Len(lines) = 0 THEN 0
  ELSE IF Len(lines) = 1 THEN Len(lines[1])
  ELSE Len(lines[1]) + 1 + JoinedLength(Tail(lines))

\* The number of FIELD_TOO_LONG errors the result holds for the tag.
TooLongErrors(res, tag) ==
  Len(SelectSeq(ErrorsWithCode(res, "FIELD_TOO_LONG"),
                LAMBDA e : e.field = tag))

\* C18: for a record of a registered type, a present field gets one
\* FIELD_TOO_LONG error when its specification declares a maximum length
\* and the value, its lines joined by one line feed each, is longer than
\* that; it gets none when the value is as long as the maximum or shorter,
\* when its specification declares no maximum, and when it has no
\* specification.  For a hand-written message the length is that of the
\* physical lines joined by one character each, whatever the line break.
TooLongBeyondMaximumOnly ==
  op \in {"validate", "revalidate", "extend"} /\ ~result.threw
    /\ parsed.messageType \in MT_SPEC_KEYS =>
      /\ \A i \in 1..Len(parsed.textBlock) :
           TooLongErrors(result, parsed.textBlock[i].key) =
             IF /\ SpecHasTag(SpecOf(parsed), parsed.textBlock[i].key)
                /\ SpecFind(SpecOf(parsed), parsed.textBlock[i].key).maxLength # 0
                /\ Len(JoinedValue(parsed.textBlock[i].value))
                     > SpecFind(SpecOf(parsed), parsed.textBlock[i].key).maxLength
             THEN 1 ELSE 0
      /\ doc \in LengthDocs =>
           \A i \in 1..Len(doc.fields) :
             ObjHas(parsed.textBlock, doc.fields[i].tag) =>
               Len(JoinedValue(ObjGet(parsed.textBlock, doc.fields[i].tag)))
                 = JoinedLength(doc.fields[i].lines)

\* A message whose field 20 is exactly as long as its maximum and whose
\* four-line field 70 is one character longer than its maximum has been
\* validated.
AtAndBeyondMaximumValidated ==
  /\ op = "validate"
  /\ doc \in CreditLengthDocs
  /\ JoinedLength(doc.fields[1].lines) = 16
  /\ JoinedLength(doc.fields[5].lines) = 141
  /\ Len(doc.fields[2].lines[1]) = 50
  /\ doc.eol = "\r\n"
  /\ FieldsOf(result.errors) = <<"70">>

\* The INVALID_FORMAT warnings of the result.
InvalidFormatWarnings(res) ==
  SelectSeq(res.warnings, LAMBDA w : w.code = "INVALID_FORMAT")

\* The field and the code of each of a sequence of errors or warnings.
Kinds(reports) ==
  [i \in 1..Len(reports) |-> <<reports[i].field, reports[i].code>>]

NodeMT103Complete ==
  params # NoParams /\ params.mtType = "MT103" =>
    /\ op = "generate" =>
         /\ ~wire.threw
         /\ \A tag \in {"20", "32A", "50K", "59"} :
              IndexOfFrom(wire.text, "\r\n:" \o tag \o ":", 0) >= 0
         /\ IndexOfFrom(wire.text, "\r\n:71A:" \o params.charges \o "\r\n", 0) >= 0
    /\ op = "validate" => ~result.threw /\ result.valid

\* What a call returns when it is the only call ever made.
Alone(ran) ==
  CASE ran.call = "decode"   -> parseMtMessage(ran.arg)
    [] ran.call = "validate" -> validateMtMessage(ran.arg)
    [] ran.call = "generate" -> generateMtMessage(ran.arg)

ValidMeansNoError(res) == res.threw \/ (res.valid <=> Len(res.errors) = 0)

\* C22: in every result validateMtMessage returns, valid is true exactly
\* when the error list is empty, whatever warnings (unknown tag, missing
\* ordering customer, balance format) the result carries.
ValidExactlyWhenNoError ==
  /\ op \in {"validate", "revalidate", "extend", "replace"}
       => ValidMeansNoError(result)
  /\ op \in {"extend", "replace"} => ValidMeansNoError(before)

\* A result found valid although it carries a balance format warning.
ValidWithBalanceWarning ==
  /\ op = "replace"
  /\ ~result.threw
  /\ result.valid
  /\ \E i \in 1..Len(result.warnings) :
       result.warnings[i].code = "INVALID_FORMAT"

\* The input upper-cased and with its whitespace removed.
UpperStripped(s) == StripWhitespace(ToUpperCase(s))

\* 4 letters, 2 letters, 2 alphanumerics and an optional 3 alphanumerics,
\* a country code of the table, a location code not starting with 0 or 1.
StructuralBic(n) ==
  /\ Len(n) \in {8, 11}
  /\ AllIn(Slice(n, 0, 4), Upper)
  /\ AllIn(Slice(n, 4, 6), Upper)
  /\ AllIn(Slice(n, 6, 8), Upper \cup Digits)
  /\ Len(n) = 11 => AllIn(Slice(n, 8, 11), Upper \cup Digits)
  /\ Slice(n, 4, 6) \in COUNTRY_CODES
  /\ CharAt(n, 6) \notin {"0", "1"}

\* Strings that differ from s in letter case or in spaces only.
CaseAndSpaceVariants(s) ==
  {ToUpperCase(s), StripWhitespace(s), " " \o s, s \o " ",
   ToUpperCase(Slice(s, 0, 3)) \o " " \o SliceFrom(s, 3)}

\* C23: validateBic returns valid = true exactly when the upper-cased,
\* whitespace-stripped input is 4 letters, 2 letters, 2 alphanumerics and
\* an optional 3 alphanumerics with a country code of the country table and
\* a location code not starting with 0 or 1; a valid result has a
\* normalized form of 8 or 11 characters; valid is true exactly when the
\* error list is empty; inputs that differ only in letter case or spaces
\* get the same verdict.
BicVerdictIsStructural ==
  verdict # NoVerdict =>
    /\ verdict.valid <=> StructuralBic(UpperStripped(bic))
    /\ verdict.valid => Len(verdict.normalized) \in {8, 11}
    /\ verdict.valid <=> Len(verdict.errors) = 0
    /\ \A b \in CaseAndSpaceVariants(bic) :
         validateBic(b).valid = verdict.valid

\* An 11-character code typed in mixed case and with spaces was found
\* valid.
SpacedBicFoundValid ==
  /\ verdict.valid
  /\ Len(verdict.normalized) = 11
  /\ Len(bic) > 11
  /\ bic # ToUpperCase(bic)

\* C24: generateIban never throws; for a country code that is in no letter
\* case a key of the country table it returns valid = false with a
\* non-empty error list and an empty IBAN; every result with valid = true
\* carries an IBAN of the country's registered length whose MOD-97
\* remainder is 1.
GenerateIbanNeverThrows ==
  ibanInput # NoIbanInput =>
    /\ ~ibanResult.threw
    /\ ToUpperCase(ibanInput.countryCode) \notin IbanCountries
         => /\ ~ibanResult.valid
            /\ Len(ibanResult.errors) > 0
            /\ ibanResult.iban = ""
    /\ ibanResult.valid
         => /\ ToUpperCase(ibanInput.countryCode) \in IbanCountries
            /\ Len(ibanResult.iban)
                 = IBAN_COUNTRY_SPECS(ToUpperCase(ibanInput.countryCode)).ibanLength
            /\ validateIbanChecksum(ibanResult.iban)
            /\ validateIban(ibanResult.iban).valid

\* A scalar string, or a sequence of at least two lines.
ScalarOrLines(x) == (~x.arr /\ Len(x.v) = 1) \/ (x.arr /\ Len(x.v) >= 2)

\* The tag of field i of the message occurs once, and each of its lines
\* is a value line: the text after the tag is not empty, no later line is
\* the terminator and the last line is not empty.
PlainLines(fld) ==
  /\ fld.lines[1] # ""
  /\ \A j \in 2..Len(fld.lines) : fld.lines[j] # "-"
  /\ fld.lines[Len(fld.lines)] # ""

ValueLinesOnly(i) ==
  /\ \A j \in 1..Len(doc.fields) : j # i => doc.fields[j].tag # doc.fields[i].tag
  /\ PlainLines(doc.fields[i])

\* C25: every value of a decoded field mapping is a scalar string or a
\* sequence of at least two lines, never a sequence of one or no line; a
\* field with exactly one value line is the scalar of that line, a field
\* with two or more value lines is the sequence of those lines in order.
ValuesAreScalarOrLines ==
  op \in {"decode", "extend"} =>
    /\ \A k \in 1..Len(parsed.textBlock) :
         ScalarOrLines(parsed.textBlock[k].value)
    /\ \A i \in 1..Len(doc.fields) :
         (ValueLinesOnly(i) /\ ObjHas(parsed.textBlock, doc.fields[i].tag))
           => ObjGet(parsed.textBlock, doc.fields[i].tag)
                = (IF Len(doc.fields[i].lines) = 1
                   THEN Scalar(doc.fields[i].lines[1])
                   ELSE Arr(doc.fields[i].lines))

\* A decoded mapping holds a one-line field as a scalar beside a two-line
\* field as a sequence.
ScalarBesideTwoLines ==
  /\ op = "decode"
  /\ doc # NoDoc
  /\ \E i, j \in 1..Len(doc.fields) :
       /\ ValueLinesOnly(i) /\ ValueLinesOnly(j)
       /\ Len(doc.fields[i].lines) = 1
       /\ Len(doc.fields[j].lines) = 2
       /\ ObjHas(parsed.textBlock, doc.fields[i].tag)
       /\ ObjHas(parsed.textBlock, doc.fields[j].tag)
       /\ ~ObjGet(parsed.textBlock, doc.fields[i].tag).arr
       /\ ObjGet(parsed.textBlock, doc.fields[j].tag).arr

\* The terminator line.
Terminator == "-"

\* The message decoded has a block 4 closed by the terminator line: a
\* hand-written message with the terminator, or a generated one.
ClosedByTerminator ==
  \/ doc # NoDoc /\ doc.terminator
  \/ doc = NoDoc /\ Generated

\* C26: the terminator line that closes block 4 is discarded: no decoded
\* value is the terminator or holds it as one of its lines (a single dash
\* is a value only as the text that follows a tag on the tag's own line),
\* and the terminator opens no field: every decoded tag is a tag of the
\* message.
TerminatorDiscarded ==
  (op \in {"decode", "extend"} /\ ClosedByTerminator) =>
    \A k \in 1..Len(parsed.textBlock) :
      /\ doc # NoDoc =>
           \E i \in 1..Len(doc.fields) :
             doc.fields[i].tag = parsed.textBlock[k].key
      /\ \A j \in 1..Len(parsed.textBlock[k].value.v) :
           parsed.textBlock[k].value.v[j] = Terminator
             => /\ j = 1
                /\ doc # NoDoc
                /\ \E i \in 1..Len(doc.fields) :
                     /\ doc.fields[i].tag = parsed.textBlock[k].key
                     /\ doc.fields[i].lines[1] = Terminator

\* The terminator closed a block whose last field spans two lines, and
\* the decoded value of that field is those two lines.
TerminatorAfterTwoLines ==
  /\ op = "decode"
  /\ doc # NoDoc
  /\ doc.wrapped
  /\ doc.terminator
  /\ Len(doc.fields) > 0
  /\ Len(doc.fields[Len(doc.fields)].lines) = 2
  /\ ValueLinesOnly(Len(doc.fields))
  /\ ObjHas(parsed.textBlock, doc.fields[Len(doc.fields)].tag)
  /\ ObjGet(parsed.textBlock, doc.fields[Len(doc.fields)].tag)
       = Arr(doc.fields[Len(doc.fields)].lines)

\* C27: for sender and receiver BICs that validateBic accepts, block 1 of
\* the generated text is F, 01, a 12-character sender address, session
\* 0000 and sequence 000000, block 2 is I, the type, a 12-character
\* receiver address and priority N, and decoding the text returns these
\* values, both addresses beginning with the normalized BIC.
HeadersCarry12CharacterAddresses ==
  (Generated /\ ValidBics(input) /\ ~wire.threw) =>
    LET sender   == validateBic(input.senderBic).normalized
        receiver == validateBic(input.receiverBic).normalized
        type     == TypeDigits(input.messageType)
    IN  /\ Slice(wire.text, 0, 6) = "{1:F01"
        /\ Slice(wire.text, 6, 6 + Len(sender)) = sender
        /\ Slice(wire.text, 18, 29) = "0000000000}"
        /\ Slice(wire.text, 29, 33 + Len(type)) = "{2:I" \o type
        /\ Slice(wire.text, 33 + Len(type), 33 + Len(type) + Len(receiver))
             = receiver
        /\ Slice(wire.text, 45 + Len(type), 47 + Len(type)) = "N}"
        /\ op # "generate" =>
             /\ parsed.basicHeader.applicationId = "F"
             /\ parsed.basicHeader.serviceId = "01"
             /\ Len(parsed.basicHeader.ltAddress) = 12
             /\ Slice(parsed.basicHeader.ltAddress, 0, Len(sender)) = sender
             /\ parsed.basicHeader.sessionNumber = "0000"
             /\ parsed.basicHeader.sequenceNumber = "000000"
             /\ parsed.applicationHeader.inputOutput = "I"
             /\ Len(parsed.applicationHeader.receiverAddress) = 12
             /\ Slice(parsed.applicationHeader.receiverAddress, 0, Len(receiver))
                  = receiver
             /\ parsed.applicationHeader.priority = "N"

\* A message generated for an 8-character sender typed in small letters
\* with spaces and an 11-character receiver has been decoded.
PaddedAddressesDecoded ==
  /\ op = "decode"
  /\ Generated
  /\ ~wire.threw
  /\ Len(validateBic(input.senderBic).normalized) = 8
  /\ input.senderBic # validateBic(input.senderBic).normalized
  /\ Len(validateBic(input.receiverBic).normalized) = 11
  /\ parsed.basicHeader.ltAddress = "DEUTDEFFXXXX"
  /\ parsed.applicationHeader.receiverAddress = "CHASUS33XXXX"

\* The 0-based index at which block n opens in the text, -1 when absent.
BlockAt(text, n) == IndexOfFrom(text, "{" \o ToString(n) \o ":", 0)

\* C28 (as claimed): the generated text is block 1, block 2, an optional
\* block 3 and block 4 in this order, block 3 being present exactly when a
\* uetr or a mur value is supplied, and, the input holding no trailer
\* field, no block 5.
WireHasSuppliedBlocksOnly ==
  (Generated /\ ~wire.threw) =>
    /\ BlockAt(wire.text, 1) = 0
    /\ BlockAt(wire.text, 2) > BlockAt(wire.text, 1)
    /\ BlockAt(wire.text, 4) > BlockAt(wire.text, 2)
    /\ BlockAt(wire.text, 3) # -1
         <=> (input.fields.uetr # "" \/ input.fields.mur # "")
    /\ BlockAt(wire.text, 3) # -1
         => /\ BlockAt(wire.text, 3) > BlockAt(wire.text, 2)
            /\ BlockAt(wire.text, 4) > BlockAt(wire.text, 3)
    /\ BlockAt(wire.text, 5) = -1

\* The entries of the mapping whose key is the tag.
EntriesOf(fields, tag) == SelectSeq(fields, LAMBDA e : e.key = tag)

\* Field i of the message is the last one its tag opens.
LastOccurrence(i) ==
  \A j \in (i + 1)..Len(doc.fields) : doc.fields[j].tag # doc.fields[i].tag

\* The statement lines the input supplies.
SuppliedStatementLines == SplitOn(input.fields.statementLines, "|")

\* C29: where a tag opens a field more than once in a text block, the
\* decoded mapping holds one entry for the tag, with the value of the last
\* occurrence; the decoding of a generated MT940 or MT950 built from two or
\* more statement lines holds the last :61: line only.
LastOccurrenceWins ==
  op = "decode" =>
    /\ \A i \in 1..Len(doc.fields) :
         (LastOccurrence(i) /\ ObjHas(parsed.textBlock, doc.fields[i].tag))
           => /\ Len(EntriesOf(parsed.textBlock, doc.fields[i].tag)) = 1
              /\ PlainLines(doc.fields[i])
                   => ObjGet(parsed.textBlock, doc.fields[i].tag)
                        = (IF Len(doc.fields[i].lines) = 1
                           THEN Scalar(doc.fields[i].lines[1])
                           ELSE Arr(doc.fields[i].lines))
    /\ (Generated /\ TypeDigits(input.messageType) \in {"940", "950"}
          /\ Len(SuppliedStatementLines) >= 2)
         => /\ Len(EntriesOf(parsed.textBlock, "61")) = 1
            /\ ObjGet(parsed.textBlock, "61")
                 = Scalar(SuppliedStatementLines[Len(SuppliedStatementLines)])

\* A generated MT950 of several statement lines has been decoded, and its
\* entry 61 is not the first statement line.
SeveralStatementLinesDecoded ==
  /\ op = "decode"
  /\ Generated
  /\ TypeDigits(input.messageType) = "950"
  /\ Len(SuppliedStatementLines) >= 2
  /\ ObjHas(parsed.textBlock, "61")
  /\ ObjGet(parsed.textBlock, "61") # Scalar(SuppliedStatementLines[1])

\* The operation on item k (counted from 1) throws.
Fails(k) == generateIban(items[k]).threw

\* The entry execute owes for item k under continue-on-fail.
EntryFor(k) ==
  IF Fails(k) THEN [json |-> [error |-> TypeErrorMessage], pairedItem |-> k - 1]
  ELSE [json |-> generateIban(items[k]), pairedItem |-> k - 1]

\* Items are processed in index order; a returned output holds one entry
\* per item, in order and paired with its index, an error entry for an item
\* that threw; without continue-on-fail the run aborts at the first
\* failing item, with its index and without output.
ExecuteOutcome ==
  /\ run.status \in {"running", "returned"}
       => /\ Len(returnData) = itemIndex
          /\ \A k \in 1..Len(returnData) : returnData[k] = EntryFor(k)
  /\ run.status = "returned"
       => /\ Len(run.output) = Len(items)
          /\ \A k \in 1..Len(items) : run.output[k] = EntryFor(k)
          /\ continueOnFail \/ \A k \in 1..Len(items) : ~Fails(k)
  /\ run.status = "aborted"
       => /\ ~continueOnFail
          /\ run.output = <<>>
          /\ run.itemIndex + 1 \in 1..Len(items)
          /\ Fails(run.itemIndex + 1)
          /\ \A k \in 1..run.itemIndex : ~Fails(k)

\* C30: the execute loop processes the items in index order; with
\* continue-on-fail it returns one entry per input item, in input order and
\* paired with the item's index, an item that throws giving an entry that
\* holds the error message only and later items being processed still;
\* without continue-on-fail the first failing item aborts the run with an
\* error that carries its index, and no output is returned.  Every
\* execution ends: it returns, or it aborts.
ExecuteReturnsOneEntryPerItem ==
  /\ []ExecuteOutcome
  /\ [](run.status = "running"
         => <>(\/ run.status = "aborted" /\ ~continueOnFail
               \/ run.status = "returned" /\ Len(run.output) = Len(items)))

\* An execution under continue-on-fail has returned three entries, the
\* second for an item that threw, the third for an item processed after it.
ReturnedAfterFailingItem ==
  /\ run.status = "returned"
  /\ continueOnFail
  /\ Len(run.output) = 3
  /\ run.output[2] = ErrorEntry(TypeErrorMessage, 1)
  /\ run.output[3].pairedItem = 2
  /\ "valid" \in DOMAIN run.output[3].json
  /\ run.output[3].json.valid

====
